---- MODULE Spec2Model ----
(***************************************************************************)
(* Model of docker-time-machine's historical build-and-compare engine:     *)
(*   pkg/analyzer/timemachine.go  TimeMachine.Run, getCommits,             *)
(*                                analyzeCommit, the size-delta pass       *)
(*   pkg/bisect (unnamed/part_003) Bisector.FindRegression                 *)
(* The version-control and container-build collaborators are the           *)
(* environment: every call to them is one step whose outcome (ok, error,   *)
(* panic) is chosen nondeterministically.                                  *)
(***************************************************************************)
EXTENDS Integers, Sequences, FiniteSets, TLC

\* ------------------------------------------------------------------ bounds
\* Largest number of commits in the repository log that Run walks.
MaxPoints == 2

\* ------------------------------------------------------- environment data
\* A commit hash is <<first 12 hex digits, remaining 28 hex digits>>.
HashOf(i) == <<i, 0>>

\* Author timestamps (days); 0 is Go's zero time.Time.
WhenOf(i) == 10 + i

CommitOf(i) == [Hash |-> HashOf(i), When |-> WhenOf(i)]

\* The ancestry listing repo.Log yields, newest first: commit n, n-1, .., 1.
LogOfLen(n) == [k \in 1..n |-> CommitOf(n + 1 - k)]

\* Image sizes (bytes, in units of one MiB) the inspect call can report.
Sizes == {80, 100}

\* A layer command is a sequence of text chunks.  "SH" stands for the
\* literal "/bin/sh -c ", "NOP" for "#(nop) ", "SP" for white space.
Histories ==
  { << [CreatedBy |-> <<"SH", "RUN a">>, Size |-> 5],
       [CreatedBy |-> <<"SH", "NOP", "CMD">>, Size |-> 0] >>,
    << [CreatedBy |-> <<"RUN a">>, Size |-> 3],
       [CreatedBy |-> <<"RUN a">>, Size |-> 4] >> }

\* ------------------------------------------------------------------ state
VARIABLES
  config,       \* analyzer.Config: SkipFailed, Verbose, Since, Until, MaxCommits
  repo,         \* the git repository: its log and which reads succeed
  head,         \* what HEAD resolves to: a branch or a detached commit
  headAtCall,   \* head as it was when Run / FindRegression was called
  images,       \* tags present in the container runtime's image store
  docker,       \* the container runtime: per commit the size of the image
                \* its build produces and the seconds the build takes, and
                \* the history listings it can answer with
  ctxDone,      \* the context passed to Run has been cancelled
  mode,         \* which entry point is executing: "run" or "bisect"
  pc,           \* control position inside Run / analyzeCommit
  commits,      \* Run: the slice returned by getCommits
  idx,          \* Run: index of the commit the loop is at (1-based)
  originalRef,  \* Run: the reference captured by repo.Head()
  results,      \* tm.results
  result,       \* analyzeCommit: the BuildResult under construction
  cur,          \* analyzeCommit: its commit argument
  runErr,       \* what Run returned: "none" (not yet), "nil", or an error
  stderr,       \* messages written to os.Stderr
  calls,        \* every collaborator call issued so far and every
                \* cancellation of the context, in order
  bconfig,      \* bisect.Config: SizeThreshold, TimeThreshold, GoodCommit,
                \* BadCommit
  left,         \* FindRegression: low end of the range still searched
  right,        \* FindRegression: high end of the range still searched
  mid,          \* FindRegression: index being probed
  badCommit,    \* FindRegression: the bad candidate recorded, or NoCommit
  badResult,    \* FindRegression: the BuildResult of that candidate
  bisectRet,    \* what FindRegression returned
  stdout,       \* lines written to os.Stdout
  format,       \* GenerateReport: its format argument ("" before the call)
  bloat,        \* what findBloatCommit returned: an index into tm.results,
                \* 0 for nil
  optimization, \* what findOptimizationCommit returned, likewise
  layerCommands,\* buildLayerComparison: the row identities it returned
  comparisons,  \* buildLayerComparison: the []LayerComparison it returned
  twin,         \* what an earlier Run from the same state, under the same
                \* collaborator outcomes but the other SkipFailed, did and
                \* left behind; NoTwin while no such Run has finished
  registry,     \* the image registry: per tag whether its metadata can be
                \* fetched, and the creation time and size it then reports
  tags,         \* runRegistry: the tags returned by getTagsToAnalyze
  regResults,   \* runRegistry: its results slice
  regErr,       \* what runRegistry returned: "none" (not yet), "nil", or
                \* an error
  refs,         \* the repository's named references: what refs/heads/<name>
                \* and refs/tags/<name> resolve to, and whether the commit
                \* object of a hash can be read
  branchArgs,   \* Compare: its arguments <<branchA, branchB>>
  infos,        \* Compare: the BranchInfo values buildBranch has returned
  compareRet    \* what Compare returned: NoCompareRet while it has not

vars == << config, repo, head, headAtCall, images, docker, ctxDone, mode, pc,
           commits, idx, originalRef, results, result, cur, runErr, stderr,
           calls, bconfig, left, right, mid, badCommit, badResult, bisectRet,
           stdout, format, bloat, optimization, layerCommands, comparisons,
           twin, registry, tags, regResults, regErr, refs, branchArgs, infos,
           compareRet >>

\* The variables only FindRegression writes.
bvars == << bconfig, left, right, mid, badCommit, badResult, bisectRet,
            stdout >>

\* The variables only GenerateReport writes.
gvars == << format, bloat, optimization, layerCommands, comparisons >>

\* The record of the Run a Run is compared with.
hvars == << twin >>

\* The variables only runRegistry writes, and the registry it reads.
kvars == << registry, tags, regResults, regErr >>

NoCommit == [Hash |-> <<0, 0>>, When |-> 0]
NoRef == [kind |-> "none", name |-> "", hash |-> <<0, 0>>]

\* ------------------------------------------------------------ pure helpers
\* strings.TrimPrefix on chunked text.
TrimPrefix(s, p) == IF Len(s) > 0 /\ Head(s) = p THEN Tail(s) ELSE s

RECURSIVE TrimLeft(_)
TrimLeft(s) == IF Len(s) > 0 /\ Head(s) = "SP" THEN TrimLeft(Tail(s)) ELSE s

RECURSIVE TrimRight(_)
TrimRight(s) ==
  IF Len(s) > 0 /\ s[Len(s)] = "SP" THEN TrimRight(SubSeq(s, 1, Len(s) - 1))
  ELSE s

\* strings.TrimSpace
TrimSpace(s) == TrimRight(TrimLeft(s))

truncateLayerCommand(cmd) ==
  TrimSpace(TrimPrefix(TrimPrefix(cmd, "SH"), "NOP"))

\* imageName := fmt.Sprintf("dtm-%s", commit.Hash.String()[:12])
ImageName(commit) == <<"dtm", commit.Hash[1]>>

\* The BuildResult analyzeCommit starts from: identity copied, the rest zero.
NewResult(commit) ==
  [ CommitHash |-> commit.Hash, Date |-> commit.When, ImageSize |-> 0,
    BuildTime |-> 0, LayerCount |-> 0, Layers |-> << >>, Error |-> "",
    SizeDiff |-> 0 ]

NoResult == NewResult(NoCommit)

NoBisectConfig ==
  [SizeThreshold |-> 0, TimeThreshold |-> 0, GoodCommit |-> 0, BadCommit |-> 0]

NoBisectRet ==
  [ status |-> "none", err |-> "", CommitHash |-> <<0, 0>>, SizeMB |-> 0,
    BuildTime |-> 0 ]

\* The state of the FindRegression variables while Run executes.
BisectIdle ==
  /\ bconfig = NoBisectConfig
  /\ left = 0
  /\ right = 0
  /\ mid = 0
  /\ badCommit = NoCommit
  /\ badResult = NoResult
  /\ bisectRet = NoBisectRet
  /\ stdout = << >>

\* The state of the GenerateReport variables before a report is generated.
ReportIdle ==
  /\ format = ""
  /\ bloat = 0
  /\ optimization = 0
  /\ layerCommands = << >>
  /\ comparisons = << >>

\* No earlier Run to compare with.
NoTwin == [ calls |-> << >>, results |-> << >>, head |-> NoRef,
            runErr |-> "none", stderr |-> << >> ]

TwinIdle == twin = NoTwin

\* runRegistry is not running.
RegistryIdle ==
  /\ registry = << >>
  /\ tags = << >>
  /\ regResults = << >>
  /\ regErr = "none"

\* The variables only Compare writes, and the references it reads.
cvars == << refs, branchArgs, infos, compareRet >>

NoCompareRet == [ status |-> "none", err |-> "" ]

\* Compare is not running.
CompareIdle ==
  /\ refs = << >>
  /\ branchArgs = << >>
  /\ infos = << >>
  /\ compareRet = NoCompareRet

\* The layer records kept from a history listing: empty layers are skipped.
RECURSIVE KeptLayers(_)
KeptLayers(h) ==
  IF h = << >> THEN << >>
  ELSE IF Head(h).Size = 0 THEN KeptLayers(Tail(h))
  ELSE << [CreatedBy |-> truncateLayerCommand(Head(h).CreatedBy),
           Size |-> Head(h).Size] >> \o KeptLayers(Tail(h))

\* getCommits' ForEach callback folded over the log: seen-set de-duplication,
\* since/until filters on the author time, then the MaxCommits cap.
RECURSIVE SelectFrom(_, _, _, _, _, _)
SelectFrom(log, seen, acc, since, until, max) ==
  IF log = << >> THEN acc
  ELSE LET c == Head(log)
           rest == Tail(log)
       IN IF c.Hash \in seen THEN SelectFrom(rest, seen, acc, since, until, max)
          ELSE IF since # 0 /\ c.When < since
            THEN SelectFrom(rest, seen \cup {c.Hash}, acc, since, until, max)
          ELSE IF until # 0 /\ c.When > until
            THEN SelectFrom(rest, seen \cup {c.Hash}, acc, since, until, max)
          ELSE IF max > 0 /\ Len(acc) >= max
            THEN SelectFrom(rest, seen \cup {c.Hash}, acc, since, until, max)
          ELSE SelectFrom(rest, seen \cup {c.Hash}, Append(acc, c),
                          since, until, max)

\* The date test of getCommits' callback, lines 251-256: a commit is dropped
\* when its author time is Before(since) or After(until); a zero bound
\* tests nothing.
KeptByDates(c, since, until) ==
  /\ ~(since # 0 /\ c.When < since)
  /\ ~(until # 0 /\ c.When > until)

\* The first occurrence of every commit of a listing, in listing order.
RECURSIVE Dedup(_, _)
Dedup(log, seen) ==
  IF log = << >> THEN << >>
  ELSE IF Head(log).Hash \in seen THEN Dedup(Tail(log), seen)
  ELSE << Head(log) >> \o Dedup(Tail(log), seen \cup {Head(log).Hash})

\* The commits of a listing the date test keeps, in listing order.
RECURSIVE FilterDates(_, _, _)
FilterDates(log, since, until) ==
  IF log = << >> THEN << >>
  ELSE IF KeptByDates(Head(log), since, until)
    THEN << Head(log) >> \o FilterDates(Tail(log), since, until)
  ELSE FilterDates(Tail(log), since, until)

\* The first max elements of a listing; all of them when max is not positive.
FirstN(log, max) ==
  IF max > 0 /\ Len(log) > max THEN SubSeq(log, 1, max) ELSE log

\* getCommits as it would be without the seen-set: every commit the
\* enumeration yields is considered, however often it is yielded.
getCommitsNoDedup(log, cfg) ==
  FirstN(FilterDates(log, cfg.Since, cfg.Until), cfg.MaxCommits)

\* getCommits as it would be if count were advanced before the date test:
\* the cap is spent on commits the dates then reject.
getCommitsCapBeforeDates(log, cfg) ==
  FilterDates(FirstN(Dedup(log, {}), cfg.MaxCommits), cfg.Since, cfg.Until)

\* getCommits as it would be if the cap were tested without "MaxCommits > 0":
\* a cap of 0 then admits no commit.
getCommitsZeroIsACap(log, cfg) ==
  IF cfg.MaxCommits = 0 THEN << >>
  ELSE SelectFrom(log, {}, << >>, cfg.Since, cfg.Until, cfg.MaxCommits)

getCommits(log, cfg) ==
  SelectFrom(log, {}, << >>, cfg.Since, cfg.Until, cfg.MaxCommits)

Call(op, arg, ok) == [op |-> op, arg |-> arg, ok |-> ok]

\* ------------------------------------------------------------------- Init
Configs ==
  [ SkipFailed : BOOLEAN, Verbose : BOOLEAN, Since : {0}, Until : {0},
    MaxCommits : {0} ]

Repos ==
  [ log : { LogOfLen(n) : n \in 0..MaxPoints },
    refOk : BOOLEAN, logOk : {TRUE}, worktreeOk : {TRUE}, headOk : {TRUE} ]
  \cup
  [ log : { LogOfLen(1) },
    refOk : {TRUE}, logOk : BOOLEAN, worktreeOk : BOOLEAN, headOk : BOOLEAN ]

Heads ==
  { [kind |-> "branch", name |-> "main", hash |-> HashOf(1)],
    [kind |-> "detached", name |-> "HEAD", hash |-> HashOf(1)] }

Init ==
  /\ config \in Configs
  /\ repo \in Repos
  /\ head \in Heads
  /\ headAtCall = head
  /\ images = {}
  /\ docker \in [ sizeOf : [1..MaxPoints -> Sizes],
                   timeOf : {[i \in 1..MaxPoints |-> 7]},
                   histories : {Histories} ]
  /\ ctxDone = FALSE
  /\ mode = "run"
  /\ pc = "start"
  /\ commits = << >>
  /\ idx = 0
  /\ originalRef = NoRef
  /\ results = << >>
  /\ result = NoResult
  /\ cur = NoCommit
  /\ runErr = "none"
  /\ stderr = << >>
  /\ calls = << >>
  /\ BisectIdle
  /\ ReportIdle
  /\ TwinIdle
  /\ RegistryIdle
  /\ CompareIdle

\* ------------------------------------------------------------- Run: entry
\* RunStart as it would be if a failed read of HEAD were ignored and the
\* loop entered without a captured reference.
RunStartIgnoresHeadError ==
  /\ pc = "start"
  /\ LET sel == getCommits(repo.log, config)
     IN IF ~repo.refOk \/ ~repo.logOk
          THEN /\ runErr' = "failed to get commits"
               /\ pc' = "returned"
               /\ UNCHANGED << commits, originalRef, stderr >>
        ELSE IF Len(sel) = 0
          THEN /\ runErr' = "no commits found"
               /\ pc' = "returned"
               /\ UNCHANGED << commits, originalRef, stderr >>
        ELSE IF ~repo.worktreeOk
          THEN /\ runErr' = "failed to get worktree"
               /\ pc' = "returned"
               /\ commits' = sel
               /\ stderr' = Append(stderr, "found")
               /\ UNCHANGED originalRef
        ELSE IF ~repo.headOk
          THEN /\ commits' = sel
               /\ stderr' = Append(stderr, "found")
               /\ pc' = "loop"
               /\ UNCHANGED << originalRef, runErr >>
        ELSE /\ commits' = sel
             /\ originalRef' = head
             /\ stderr' = Append(stderr, "found")
             /\ pc' = "loop"
             /\ UNCHANGED runErr
  /\ idx' = 1
  /\ UNCHANGED << config, repo, head, headAtCall, images, docker, ctxDone,
                  mode, results, result, cur, calls >>
  /\ UNCHANGED bvars
  /\ UNCHANGED gvars
  /\ UNCHANGED hvars
  /\ UNCHANGED kvars
  /\ UNCHANGED cvars

\* RunStart as it would be if the empty check came after the working-tree
\* state had been captured.
RunStartChecksEmptyLate ==
  /\ pc = "start"
  /\ LET sel == getCommits(repo.log, config)
     IN IF ~repo.refOk \/ ~repo.logOk
          THEN /\ runErr' = "failed to get commits"
               /\ pc' = "returned"
               /\ UNCHANGED << commits, originalRef, stderr >>
        ELSE IF ~repo.worktreeOk
          THEN /\ runErr' = "failed to get worktree"
               /\ pc' = "returned"
               /\ commits' = sel
               /\ stderr' = Append(stderr, "found")
               /\ UNCHANGED originalRef
        ELSE IF ~repo.headOk
          THEN /\ runErr' = "failed to get HEAD"
               /\ pc' = "returned"
               /\ commits' = sel
               /\ stderr' = Append(stderr, "found")
               /\ UNCHANGED originalRef
        ELSE IF Len(sel) = 0
          THEN /\ runErr' = "no commits found"
               /\ originalRef' = head
               /\ pc' = "returned"
               /\ UNCHANGED << commits, stderr >>
        ELSE /\ commits' = sel
             /\ originalRef' = head
             /\ stderr' = Append(stderr, "found")
             /\ pc' = "loop"
             /\ UNCHANGED runErr
  /\ idx' = 1
  /\ UNCHANGED << config, repo, head, headAtCall, images, docker, ctxDone,
                  mode, results, result, cur, calls >>
  /\ UNCHANGED bvars
  /\ UNCHANGED gvars
  /\ UNCHANGED hvars
  /\ UNCHANGED kvars
  /\ UNCHANGED cvars

\* Run, lines 101-131: getCommits (reference resolution, repo.Log and the
\* iteration, any of which can fail), the empty check, Worktree() and Head().
RunStart ==
  /\ pc = "start"
  /\ LET sel == getCommits(repo.log, config)
     IN IF ~repo.refOk \/ ~repo.logOk
          THEN /\ runErr' = "failed to get commits"
               /\ pc' = "returned"
               /\ UNCHANGED << commits, originalRef, stderr >>
        ELSE IF Len(sel) = 0
          THEN /\ runErr' = "no commits found"
               /\ pc' = "returned"
               /\ UNCHANGED << commits, originalRef, stderr >>
        ELSE IF ~repo.worktreeOk
          THEN /\ runErr' = "failed to get worktree"
               /\ pc' = "returned"
               /\ commits' = sel
               /\ stderr' = Append(stderr, "found")
               /\ UNCHANGED originalRef
        ELSE IF ~repo.headOk
          THEN /\ runErr' = "failed to get HEAD"
               /\ pc' = "returned"
               /\ commits' = sel
               /\ stderr' = Append(stderr, "found")
               /\ UNCHANGED originalRef
        ELSE /\ commits' = sel
             /\ originalRef' = head
             /\ stderr' = Append(stderr, "found")
             /\ pc' = "loop"
             /\ UNCHANGED runErr
  /\ idx' = 1
  /\ UNCHANGED << config, repo, head, headAtCall, images, docker, ctxDone,
                  mode, results, result, cur, calls >>
  /\ UNCHANGED bvars
  /\ UNCHANGED gvars
  /\ UNCHANGED hvars
  /\ UNCHANGED kvars
  /\ UNCHANGED cvars

\* RunLoop as it would be if the loop gave up once the context is cancelled.
RunLoopStopOnCancel ==
  /\ mode = "run"
  /\ pc = "loop"
  /\ IF ctxDone
       THEN /\ pc' = "returned"
            /\ runErr' = "context canceled"
            /\ UNCHANGED << cur, result, stderr >>
       ELSE IF idx <= Len(commits)
       THEN /\ cur' = commits[idx]
            /\ result' = NewResult(commits[idx])
            /\ stderr' = IF config.Verbose THEN Append(stderr, "building")
                          ELSE stderr
            /\ pc' = "ac_checkout"
            /\ UNCHANGED runErr
       ELSE /\ pc' = "diff"
            /\ UNCHANGED << cur, result, stderr, runErr >>
  /\ UNCHANGED << config, repo, head, headAtCall, images, docker, ctxDone,
                  mode, commits, idx, originalRef, results, calls >>
  /\ UNCHANGED bvars
  /\ UNCHANGED gvars
  /\ UNCHANGED hvars
  /\ UNCHANGED kvars
  /\ UNCHANGED cvars

\* Run, lines 134-143: the loop head; calls analyzeCommit for commits[idx],
\* or leaves the loop when the slice is exhausted.
RunLoop ==
  /\ mode = "run"
  /\ pc = "loop"
  /\ IF idx <= Len(commits)
       THEN /\ cur' = commits[idx]
            /\ result' = NewResult(commits[idx])
            /\ stderr' = IF config.Verbose THEN Append(stderr, "building")
                          ELSE stderr
            /\ pc' = "ac_checkout"
       ELSE /\ pc' = "diff"
            /\ UNCHANGED << cur, result, stderr >>
  /\ UNCHANGED << config, repo, head, headAtCall, images, docker, ctxDone,
                  mode, commits, idx, originalRef, results, runErr, calls >>
  /\ UNCHANGED bvars
  /\ UNCHANGED gvars
  /\ UNCHANGED hvars
  /\ UNCHANGED kvars
  /\ UNCHANGED cvars

\* ---------------------------------------------------------- analyzeCommit
Detached(hash) == [kind |-> "detached", name |-> "HEAD", hash |-> hash]

\* AcCheckout as it would be if the error of the checkout were dropped and
\* the build went ahead on the tree as it was left.
AcCheckoutIgnoresFailure ==
  /\ pc = "ac_checkout"
  /\ IF ~repo.worktreeOk
       THEN /\ result' = [result EXCEPT !.Error = "failed to get worktree"]
            /\ pc' = "ac_return"
            /\ UNCHANGED << head, calls >>
       ELSE \E ok \in BOOLEAN :
              /\ calls' = Append(calls, Call("checkout", cur.Hash, ok))
              /\ head' = IF ok THEN Detached(cur.Hash) ELSE head
              /\ pc' = "ac_build"
              /\ UNCHANGED result
  /\ UNCHANGED << config, repo, headAtCall, images, docker, ctxDone, mode,
                  commits, idx, originalRef, results, cur, runErr, stderr >>
  /\ UNCHANGED bvars
  /\ UNCHANGED gvars
  /\ UNCHANGED hvars
  /\ UNCHANGED kvars
  /\ UNCHANGED cvars

\* analyzeCommit, lines 283-297: Worktree() and the forced checkout of the
\* commit.  A failed checkout is taken to leave HEAD where it was.
AcCheckout ==
  /\ pc = "ac_checkout"
  /\ IF ~repo.worktreeOk
       THEN /\ result' = [result EXCEPT !.Error = "failed to get worktree"]
            /\ pc' = "ac_return"
            /\ UNCHANGED << head, calls >>
       ELSE \E ok \in BOOLEAN :
              /\ calls' = Append(calls, Call("checkout", cur.Hash, ok))
              /\ IF ok
                   THEN /\ head' = Detached(cur.Hash)
                        /\ pc' = "ac_build"
                        /\ UNCHANGED result
                   ELSE /\ result' = [result EXCEPT
                                        !.Error = "failed to checkout commit"]
                        /\ pc' = "ac_return"
                        /\ UNCHANGED head
  /\ UNCHANGED << config, repo, headAtCall, images, docker, ctxDone, mode,
                  commits, idx, originalRef, results, cur, runErr, stderr >>
  /\ UNCHANGED bvars
  /\ UNCHANGED gvars
  /\ UNCHANGED hvars
  /\ UNCHANGED kvars
  /\ UNCHANGED cvars

\* analyzeCommit, lines 299-321: BuildImage under the derived tag.  A
\* cancelled context makes the call fail.
AcBuild ==
  /\ pc = "ac_build"
  /\ \E ok \in (IF ctxDone THEN {FALSE} ELSE BOOLEAN) :
       /\ calls' = Append(calls, Call("build", ImageName(cur), ok))
       /\ IF ok
            THEN /\ images' = images \cup {ImageName(cur)}
                 /\ result' = [result EXCEPT
                                 !.BuildTime = docker.timeOf[cur.Hash[1]]]
                 /\ pc' = "ac_inspect"
            ELSE /\ result' = [result EXCEPT !.Error = "build failed"]
                 /\ pc' = "ac_return"
                 /\ UNCHANGED images
  /\ UNCHANGED << config, repo, head, headAtCall, docker, ctxDone, mode,
                  commits, idx, originalRef, results, cur, runErr, stderr >>
  /\ UNCHANGED bvars
  /\ UNCHANGED gvars
  /\ UNCHANGED hvars
  /\ UNCHANGED kvars
  /\ UNCHANGED cvars

\* Number of entries of RootFS.Layers the inspect call reports.
LayerCounts == {2}

\* AcInspect as it would be if a failed inspect returned without asking for
\* the image to be removed.
AcInspectReturnsWithoutRemove ==
  /\ pc = "ac_inspect"
  /\ \E ok \in (IF ctxDone \/ ImageName(cur) \notin images THEN {FALSE}
                 ELSE BOOLEAN), n \in LayerCounts :
       /\ calls' = Append(calls, Call("inspect", ImageName(cur), ok))
       /\ IF ok
            THEN /\ result' = [result EXCEPT !.ImageSize = docker.sizeOf[cur.Hash[1]],
                                             !.LayerCount = n]
                 /\ pc' = "ac_history"
            ELSE /\ result' = [result EXCEPT
                                 !.Error = "failed to inspect image"]
                 /\ pc' = "ac_return"
  /\ UNCHANGED << config, repo, head, headAtCall, images, docker, ctxDone,
                  mode, commits, idx, originalRef, results, cur, runErr,
                  stderr >>
  /\ UNCHANGED bvars
  /\ UNCHANGED gvars
  /\ UNCHANGED hvars
  /\ UNCHANGED kvars
  /\ UNCHANGED cvars

\* analyzeCommit, lines 323-332: GetImageInfo.
AcInspect ==
  /\ pc = "ac_inspect"
  /\ \E ok \in (IF ctxDone \/ ImageName(cur) \notin images THEN {FALSE}
                 ELSE BOOLEAN), n \in LayerCounts :
       /\ calls' = Append(calls, Call("inspect", ImageName(cur), ok))
       /\ IF ok
            THEN /\ result' = [result EXCEPT !.ImageSize = docker.sizeOf[cur.Hash[1]],
                                             !.LayerCount = n]
                 /\ pc' = "ac_history"
            ELSE /\ result' = [result EXCEPT
                                 !.Error = "failed to inspect image"]
                 /\ pc' = "ac_remove"
  /\ UNCHANGED << config, repo, head, headAtCall, images, docker, ctxDone,
                  mode, commits, idx, originalRef, results, cur, runErr,
                  stderr >>
  /\ UNCHANGED bvars
  /\ UNCHANGED gvars
  /\ UNCHANGED hvars
  /\ UNCHANGED kvars
  /\ UNCHANGED cvars

\* AcHistory as it would be if a failed history query failed the result.
AcHistoryFailureIsError ==
  /\ pc = "ac_history"
  /\ \/ /\ calls' = Append(calls, Call("history", ImageName(cur), FALSE))
        /\ result' = [result EXCEPT !.Error = "failed to get image history"]
     \/ /\ ~ctxDone
        /\ \E h \in docker.histories :
             result' = [result EXCEPT !.Layers = KeptLayers(h)]
        /\ calls' = Append(calls, Call("history", ImageName(cur), TRUE))
  /\ pc' = "ac_remove"
  /\ UNCHANGED << config, repo, head, headAtCall, images, docker, ctxDone,
                  mode, commits, idx, originalRef, results, cur, runErr,
                  stderr >>
  /\ UNCHANGED bvars
  /\ UNCHANGED gvars
  /\ UNCHANGED hvars
  /\ UNCHANGED kvars
  /\ UNCHANGED cvars

\* analyzeCommit, lines 334-350: GetImageHistory; an error only leaves the
\* layer list empty.
AcHistory ==
  /\ pc = "ac_history"
  /\ \/ /\ calls' = Append(calls, Call("history", ImageName(cur), FALSE))
        /\ UNCHANGED result
     \/ /\ ~ctxDone
        /\ \E h \in docker.histories :
             result' = [result EXCEPT !.Layers = KeptLayers(h)]
        /\ calls' = Append(calls, Call("history", ImageName(cur), TRUE))
  /\ pc' = "ac_remove"
  /\ UNCHANGED << config, repo, head, headAtCall, images, docker, ctxDone,
                  mode, commits, idx, originalRef, results, cur, runErr,
                  stderr >>
  /\ UNCHANGED bvars
  /\ UNCHANGED gvars
  /\ UNCHANGED hvars
  /\ UNCHANGED kvars
  /\ UNCHANGED cvars

\* analyzeCommit, lines 327 and 353: RemoveImage, its error discarded.
AcRemove ==
  /\ pc = "ac_remove"
  /\ \E ok \in (IF ctxDone THEN {FALSE} ELSE BOOLEAN) :
       /\ calls' = Append(calls, Call("remove", ImageName(cur), ok))
       /\ images' = IF ok THEN images \ {ImageName(cur)} ELSE images
  /\ pc' = "ac_return"
  /\ UNCHANGED << config, repo, head, headAtCall, docker, ctxDone, mode,
                  commits, idx, originalRef, results, result, cur, runErr,
                  stderr >>
  /\ UNCHANGED bvars
  /\ UNCHANGED gvars
  /\ UNCHANGED hvars
  /\ UNCHANGED kvars
  /\ UNCHANGED cvars

\* A collaborator call made by analyzeCommit panics.  Neither analyzeCommit
\* nor Run defers or recovers, so the panic unwinds through both.
AcPanic ==
  /\ pc \in {"ac_checkout", "ac_build", "ac_inspect", "ac_history",
              "ac_remove"}
  /\ pc' = "panicked"
  /\ UNCHANGED << config, repo, head, headAtCall, images, docker, ctxDone,
                  mode, commits, idx, originalRef, results, result, cur,
                  runErr, stderr, calls >>
  /\ UNCHANGED bvars
  /\ UNCHANGED gvars
  /\ UNCHANGED hvars
  /\ UNCHANGED kvars
  /\ UNCHANGED cvars

\* The caller cancels the context it passed in.
Cancel ==
  /\ ~ctxDone
  /\ pc \notin {"returned", "panicked"}
  /\ ctxDone' = TRUE
  /\ calls' = Append(calls, Call("cancel", << >>, TRUE))
  /\ UNCHANGED << config, repo, head, headAtCall, images, docker, mode, pc,
                  commits, idx, originalRef, results, result, cur, runErr,
                  stderr >>
  /\ UNCHANGED bvars
  /\ UNCHANGED gvars
  /\ UNCHANGED hvars
  /\ UNCHANGED kvars
  /\ UNCHANGED cvars

\* RunAppend as it would be if a failed point ended the loop.
RunAppendStopOnError ==
  /\ mode = "run"
  /\ pc = "ac_return"
  /\ results' = Append(results, result)
  /\ stderr' = IF result.Error # "" /\ ~config.SkipFailed /\ config.Verbose
                THEN Append(stderr, "build failed") ELSE stderr
  /\ idx' = idx + 1
  /\ pc' = IF result.Error # "" THEN "diff" ELSE "loop"
  /\ UNCHANGED << config, repo, head, headAtCall, images, docker, ctxDone,
                  mode, commits, originalRef, result, cur, runErr, calls >>
  /\ UNCHANGED bvars
  /\ UNCHANGED gvars
  /\ UNCHANGED hvars
  /\ UNCHANGED kvars
  /\ UNCHANGED cvars

\* RunAppend as it would be if a point whose build failed were tried again.
RunAppendRetriesFailed ==
  /\ mode = "run"
  /\ pc = "ac_return"
  /\ IF result.Error = "build failed"
       THEN UNCHANGED << results, idx >>
       ELSE /\ results' = Append(results, result)
            /\ idx' = idx + 1
  /\ stderr' = IF result.Error # "" /\ ~config.SkipFailed /\ config.Verbose
                THEN Append(stderr, "build failed") ELSE stderr
  /\ pc' = "loop"
  /\ UNCHANGED << config, repo, head, headAtCall, images, docker, ctxDone,
                  mode, commits, originalRef, result, cur, runErr, calls >>
  /\ UNCHANGED bvars
  /\ UNCHANGED gvars
  /\ UNCHANGED hvars
  /\ UNCHANGED kvars
  /\ UNCHANGED cvars

\* RunAppend as it would be if, without SkipFailed, a failed point ended the
\* loop.
RunAppendStopsUnlessSkipFailed ==
  /\ mode = "run"
  /\ pc = "ac_return"
  /\ results' = Append(results, result)
  /\ stderr' = IF result.Error # "" /\ ~config.SkipFailed /\ config.Verbose
                THEN Append(stderr, "build failed") ELSE stderr
  /\ idx' = idx + 1
  /\ pc' = IF result.Error # "" /\ ~config.SkipFailed THEN "diff" ELSE "loop"
  /\ UNCHANGED << config, repo, head, headAtCall, images, docker, ctxDone,
                  mode, commits, originalRef, result, cur, runErr, calls >>
  /\ UNCHANGED bvars
  /\ UNCHANGED gvars
  /\ UNCHANGED hvars
  /\ UNCHANGED kvars
  /\ UNCHANGED cvars

\* Run, lines 143-151: analyzeCommit has returned; append its result.
RunAppend ==
  /\ mode = "run"
  /\ pc = "ac_return"
  /\ results' = Append(results, result)
  /\ stderr' = IF result.Error # "" /\ ~config.SkipFailed /\ config.Verbose
                THEN Append(stderr, "build failed") ELSE stderr
  /\ idx' = idx + 1
  /\ pc' = "loop"
  /\ UNCHANGED << config, repo, head, headAtCall, images, docker, ctxDone,
                  mode, commits, originalRef, result, cur, runErr, calls >>
  /\ UNCHANGED bvars
  /\ UNCHANGED gvars
  /\ UNCHANGED hvars
  /\ UNCHANGED kvars
  /\ UNCHANGED cvars

\* ------------------------------------------------------------- delta pass
\* Index of the first result after position i that has no error, 0 if none.
RECURSIVE NextOk(_, _)
NextOk(rs, j) ==
  IF j > Len(rs) THEN 0
  ELSE IF rs[j].Error = "" THEN j
  ELSE NextOk(rs, j + 1)

\* The delta pass as it would be if it compared with the adjacent result
\* whether or not that one failed.
SizeDiffPassAdjacent(rs) ==
  [ i \in 1..Len(rs) |->
      IF rs[i].Error # "" \/ i = Len(rs) THEN rs[i]
      ELSE [rs[i] EXCEPT !.SizeDiff = rs[i].ImageSize - rs[i + 1].ImageSize] ]

\* Index of the last result without an error, 0 if none.
LastOk(rs) ==
  LET ok == { j \in 1..Len(rs) : rs[j].Error = "" }
  IN IF ok = {} THEN 0 ELSE CHOOSE j \in ok : \A m \in ok : m <= j

\* The delta pass as it would be if every successful result were compared
\* with the oldest successful one.
SizeDiffPassAgainstOldest(rs) ==
  [ i \in 1..Len(rs) |->
      IF rs[i].Error # "" THEN rs[i]
      ELSE LET j == LastOk(rs)
           IN IF j = 0 \/ j = i THEN rs[i]
              ELSE [rs[i] EXCEPT !.SizeDiff = rs[i].ImageSize - rs[j].ImageSize] ]

\* Run, lines 156-168.  The outer loop runs i upward and writes rs[i] only,
\* reading ImageSize alone, so every iteration sees the sizes it started with.
SizeDiffPass(rs) ==
  [ i \in 1..Len(rs) |->
      IF rs[i].Error # "" THEN rs[i]
      ELSE LET j == NextOk(rs, i + 1)
           IN IF j = 0 THEN rs[i]
              ELSE [rs[i] EXCEPT !.SizeDiff = rs[i].ImageSize - rs[j].ImageSize] ]

\* RunDiff as it would be if the pass also reset the measurements of the
\* failed results.
RunDiffClearsFailed ==
  /\ mode = "run"
  /\ pc = "diff"
  /\ results' = [ i \in 1..Len(results) |->
                    IF results[i].Error # ""
                      THEN [results[i] EXCEPT !.BuildTime = 0, !.ImageSize = 0]
                      ELSE SizeDiffPass(results)[i] ]
  /\ pc' = "restore"
  /\ UNCHANGED << config, repo, head, headAtCall, images, docker, ctxDone,
                  mode, commits, idx, originalRef, result, cur, runErr,
                  stderr, calls >>
  /\ UNCHANGED bvars
  /\ UNCHANGED gvars
  /\ UNCHANGED hvars
  /\ UNCHANGED kvars
  /\ UNCHANGED cvars

\* RunDiff as it would be if the pass covered only the results the current
\* call appended.
RunDiffOnlyThisRun ==
  /\ mode = "run"
  /\ pc = "diff"
  /\ LET before == Len(results) - Len(commits)
     IN results' = SubSeq(results, 1, before) \o
                     SizeDiffPass(SubSeq(results, before + 1, Len(results)))
  /\ pc' = "restore"
  /\ UNCHANGED << config, repo, head, headAtCall, images, docker, ctxDone,
                  mode, commits, idx, originalRef, result, cur, runErr,
                  stderr, calls >>
  /\ UNCHANGED bvars
  /\ UNCHANGED gvars
  /\ UNCHANGED hvars
  /\ UNCHANGED kvars
  /\ UNCHANGED cvars

RunDiff ==
  /\ mode = "run"
  /\ pc = "diff"
  /\ results' = SizeDiffPass(results)
  /\ pc' = "restore"
  /\ UNCHANGED << config, repo, head, headAtCall, images, docker, ctxDone,
                  mode, commits, idx, originalRef, result, cur, runErr,
                  stderr, calls >>
  /\ UNCHANGED bvars
  /\ UNCHANGED gvars
  /\ UNCHANGED hvars
  /\ UNCHANGED kvars
  /\ UNCHANGED cvars

\* ------------------------------------------------------------ restoration
\* RestoreTarget as it would be if the captured hash were always used.
RestoreTargetByHash(ref) == Detached(ref.hash)

\* Run, lines 172-184: a branch is checked out by name, anything else by
\* hash.
RestoreTarget(ref) ==
  IF ref.kind = "branch"
    THEN [kind |-> "branch", name |-> ref.name, hash |-> ref.hash]
    ELSE Detached(ref.hash)

\* RunRestore as it would be if a failed restoration were returned as Run's
\* error.
RunRestoreReturnsError ==
  /\ mode = "run"
  /\ pc = "restore"
  /\ \E ok \in BOOLEAN :
       /\ calls' = Append(calls, Call("restore", RestoreTarget(originalRef), ok))
       /\ head' = IF ok THEN RestoreTarget(originalRef) ELSE head
       /\ runErr' = IF ok THEN "nil" ELSE "failed to restore original branch"
  /\ pc' = "returned"
  /\ UNCHANGED << config, repo, headAtCall, images, docker, ctxDone, mode,
                  commits, idx, originalRef, results, result, cur, stderr >>
  /\ UNCHANGED bvars
  /\ UNCHANGED gvars
  /\ UNCHANGED hvars
  /\ UNCHANGED kvars
  /\ UNCHANGED cvars

\* RunRestore as it would be if only a branch were restored and a detached
\* HEAD were left where the loop put it.
RunRestoreOnlyBranch ==
  /\ mode = "run"
  /\ pc = "restore"
  /\ IF originalRef.kind = "branch"
       THEN \E ok \in BOOLEAN :
              /\ calls' = Append(calls,
                                 Call("restore", RestoreTarget(originalRef), ok))
              /\ head' = IF ok THEN RestoreTarget(originalRef) ELSE head
              /\ stderr' = IF ok THEN stderr
                            ELSE Append(stderr, "Warning: failed to restore")
       ELSE UNCHANGED << calls, head, stderr >>
  /\ runErr' = "nil"
  /\ pc' = "returned"
  /\ UNCHANGED << config, repo, headAtCall, images, docker, ctxDone, mode,
                  commits, idx, originalRef, results, result, cur >>
  /\ UNCHANGED bvars
  /\ UNCHANGED gvars
  /\ UNCHANGED hvars
  /\ UNCHANGED kvars
  /\ UNCHANGED cvars

\* Run, lines 170-191: the restoring checkout; its failure is a warning and
\* Run returns nil.
RunRestore ==
  /\ mode = "run"
  /\ pc = "restore"
  /\ \E ok \in BOOLEAN :
       /\ calls' = Append(calls, Call("restore", RestoreTarget(originalRef), ok))
       /\ head' = IF ok THEN RestoreTarget(originalRef) ELSE head
       /\ stderr' = IF ok THEN stderr
                     ELSE Append(stderr, "Warning: failed to restore")
  /\ runErr' = "nil"
  /\ pc' = "returned"
  /\ UNCHANGED << config, repo, headAtCall, images, docker, ctxDone, mode,
                  commits, idx, originalRef, results, result, cur >>
  /\ UNCHANGED bvars
  /\ UNCHANGED gvars
  /\ UNCHANGED hvars
  /\ UNCHANGED kvars
  /\ UNCHANGED cvars

Next ==
  \/ RunStart
  \/ RunLoop
  \/ AcCheckout
  \/ AcBuild
  \/ AcInspect
  \/ AcHistory
  \/ AcRemove
  \/ AcPanic
  \/ Cancel
  \/ RunAppend
  \/ RunDiff
  \/ RunRestore

Spec == Init /\ [][Next]_vars

\* ------------------------------------------- two Runs that differ in SkipFailed
\* Most points selected by each Run of a pair.
MaxTwinPoints == 2

\* A Run about to be repeated: it starts on a branch, every read of the
\* repository succeeds, the images differ in size from point to point, and
\* the runtime answers the history of an image with one listing.
InitTwin ==
  /\ config \in Configs
  /\ repo \in [ log : { LogOfLen(n) : n \in 0..MaxTwinPoints },
                refOk : {TRUE}, logOk : {TRUE}, worktreeOk : {TRUE},
                headOk : {TRUE} ]
  /\ head \in { h \in Heads : h.kind = "branch" }
  /\ headAtCall = head
  /\ images = {}
  /\ docker \in [ sizeOf : {[i \in 1..MaxTwinPoints |-> 80 + 10 * i]},
                   timeOf : {[i \in 1..MaxTwinPoints |-> 7]},
                   histories : { {h} : h \in Histories } ]
  /\ ctxDone = FALSE
  /\ mode = "run"
  /\ pc = "start"
  /\ commits = << >>
  /\ idx = 0
  /\ originalRef = NoRef
  /\ results = << >>
  /\ result = NoResult
  /\ cur = NoCommit
  /\ runErr = "none"
  /\ stderr = << >>
  /\ calls = << >>
  /\ BisectIdle
  /\ ReportIdle
  /\ TwinIdle
  /\ RegistryIdle
  /\ CompareIdle

\* The first Run of the pair has returned.  What it did is kept in twin and
\* a second Run starts on a fresh TimeMachine, from the state the first one
\* started from, with SkipFailed the other way.
Rerun ==
  /\ mode = "run"
  /\ pc = "returned"
  /\ twin = NoTwin
  /\ twin' = [ calls |-> calls, results |-> results, head |-> head,
               runErr |-> runErr, stderr |-> stderr ]
  /\ config' = [config EXCEPT !.SkipFailed = ~config.SkipFailed]
  /\ head' = headAtCall
  /\ images' = {}
  /\ ctxDone' = FALSE
  /\ pc' = "start"
  /\ commits' = << >>
  /\ idx' = 0
  /\ originalRef' = NoRef
  /\ results' = << >>
  /\ result' = NoResult
  /\ cur' = NoCommit
  /\ runErr' = "none"
  /\ stderr' = << >>
  /\ calls' = << >>
  /\ UNCHANGED << repo, headAtCall, docker, mode >>
  /\ UNCHANGED bvars
  /\ UNCHANGED gvars
  /\ UNCHANGED kvars
  /\ UNCHANGED cvars

\* The collaborators answer the second Run as they answered the first: the
\* n-th call has the outcome the first Run's n-th call had, the caller
\* cancels at the same place, and nothing panics.
Replays ==
  /\ pc # "panicked"
  /\ \A k \in 1..Len(calls) :
       IF k <= Len(twin.calls)
         THEN /\ calls[k].ok = twin.calls[k].ok
              /\ (calls[k].op = "cancel") = (twin.calls[k].op = "cancel")
         ELSE calls[k].op # "cancel"

\* The first Run's caller cancelled at this place of the trace.
CancelDue ==
  /\ Len(calls) < Len(twin.calls)
  /\ twin.calls[Len(calls) + 1].op = "cancel"

NextTwin ==
  \/ twin = NoTwin /\ Next
  \/ Rerun
  \/ twin # NoTwin /\ Next /\ Replays' /\ (CancelDue => ctxDone')

SpecTwin == InitTwin /\ [][NextTwin]_vars

\* ------------------------------------------------- Run called a second time
\* Run has returned and is called again on the same TimeMachine: tm.results
\* is what the first call left, the working tree is where that call left it,
\* and the caller hands in a live context.  What the first call did is kept
\* in twin.
RunAgain ==
  /\ mode = "run"
  /\ pc = "returned"
  /\ twin = NoTwin
  /\ twin' = [ calls |-> calls, results |-> results, head |-> head,
               runErr |-> runErr, stderr |-> stderr ]
  /\ headAtCall' = head
  /\ ctxDone' = FALSE
  /\ pc' = "start"
  /\ commits' = << >>
  /\ idx' = 0
  /\ originalRef' = NoRef
  /\ result' = NoResult
  /\ cur' = NoCommit
  /\ runErr' = "none"
  /\ calls' = << >>
  /\ UNCHANGED << config, repo, head, images, docker, mode, results, stderr >>
  /\ UNCHANGED bvars
  /\ UNCHANGED gvars
  /\ UNCHANGED kvars
  /\ UNCHANGED cvars

\* Most points selected by each of the two calls.
MaxAgainPoints == 2

\* A quiet Run about to be called twice: it starts on a branch, every read
\* of the repository succeeds, the images differ in size from point to
\* point, and the runtime answers the history of an image with one listing.
InitAgain ==
  /\ config = [ SkipFailed |-> FALSE, Verbose |-> FALSE, Since |-> 0,
                Until |-> 0, MaxCommits |-> 0 ]
  /\ repo \in [ log : { LogOfLen(n) : n \in 0..MaxAgainPoints },
                refOk : {TRUE}, logOk : {TRUE}, worktreeOk : {TRUE},
                headOk : {TRUE} ]
  /\ head \in { h \in Heads : h.kind = "branch" }
  /\ headAtCall = head
  /\ images = {}
  /\ docker = [ sizeOf |-> [i \in 1..MaxAgainPoints |-> 80 + 10 * i],
                timeOf |-> [i \in 1..MaxAgainPoints |-> 7],
                histories |-> { << >> } ]
  /\ ctxDone = FALSE
  /\ mode = "run"
  /\ pc = "start"
  /\ commits = << >>
  /\ idx = 0
  /\ originalRef = NoRef
  /\ results = << >>
  /\ result = NoResult
  /\ cur = NoCommit
  /\ runErr = "none"
  /\ stderr = << >>
  /\ calls = << >>
  /\ BisectIdle
  /\ ReportIdle
  /\ TwinIdle
  /\ RegistryIdle
  /\ CompareIdle

\* Two calls of Run whose context is never cancelled and whose
\* collaborators return.
NextAgain ==
  \/ RunStart
  \/ RunLoop
  \/ AcCheckout
  \/ AcBuild
  \/ AcInspect
  \/ AcHistory
  \/ AcRemove
  \/ RunAppend
  \/ RunDiff
  \/ RunRestore
  \/ RunAgain

SpecAgain == InitAgain /\ [][NextAgain]_vars

\* ------------------------------------------------- the delta pass on its own
\* Longest result sequence handed to the delta pass.
MaxResults == 3

DiffSizes == {80, 100, 120}

\* A BuildResult as analyzeCommit returns it for commit i: failed with
\* nothing measured (o = 0), or measured with image size o.
ResultFor(i, o) ==
  IF o = 0
    THEN [NewResult(CommitOf(i)) EXCEPT !.Error = "build failed"]
    ELSE [NewResult(CommitOf(i)) EXCEPT !.ImageSize = o, !.BuildTime = 7,
                                        !.LayerCount = 2]

ResultSeqs ==
  UNION { { [i \in 1..n |-> ResultFor(i, f[i])] :
              f \in [1..n -> DiffSizes \cup {0}] } : n \in 1..MaxResults }

\* Run at the point where the build loop has drained, for every sequence of
\* results the loop can have accumulated.
InitDiff ==
  /\ config \in [ SkipFailed : {FALSE}, Verbose : {FALSE}, Since : {0},
                   Until : {0}, MaxCommits : {0} ]
  /\ results \in ResultSeqs
  /\ repo = [ log |-> LogOfLen(Len(results)), refOk |-> TRUE, logOk |-> TRUE,
              worktreeOk |-> TRUE, headOk |-> TRUE ]
  /\ commits = [i \in 1..Len(results) |-> CommitOf(i)]
  /\ idx = Len(results) + 1
  /\ headAtCall \in Heads
  /\ originalRef = headAtCall
  /\ head = Detached(HashOf(1))
  /\ images = {}
  /\ docker = [ sizeOf |-> [i \in 1..MaxResults |-> 80],
                timeOf |-> [i \in 1..MaxResults |-> 7],
                histories |-> Histories ]
  /\ ctxDone = FALSE
  /\ mode = "run"
  /\ pc = "diff"
  /\ result = NoResult
  /\ cur = NoCommit
  /\ runErr = "none"
  /\ stderr = << "found" >>
  /\ calls = << >>
  /\ BisectIdle
  /\ ReportIdle
  /\ TwinIdle
  /\ RegistryIdle
  /\ CompareIdle

NextDiff ==
  \/ RunDiff
  \/ RunRestore

SpecDiff == InitDiff /\ [][NextDiff]_vars

\* ---------------------------------------------- the Point Selector on its own
\* Longest ancestry listing repo.Log yields to getCommits, and the number of
\* distinct commits it is drawn from.
MaxLog == 3

\* Ancestry listings: any order of author times, and the same commit may be
\* yielded more than once.
SelectLogs ==
  UNION { [1..n -> { CommitOf(i) : i \in 1..MaxLog }] : n \in 0..MaxLog }

\* Date bounds as time.Parse returns them (0: the flag was not given) and
\* the --max-commits values (0: all).  The author times are 11, 12, 13, ..
SelectConfigs ==
  [ SkipFailed : {FALSE}, Verbose : {FALSE}, Since : {0, 12, 13},
    Until : {0, 11, 12}, MaxCommits : {0, 1, 2} ]

\* Run called on a repository whose reads all succeed, for every listing
\* and every selection setting.
InitSelect ==
  /\ config \in SelectConfigs
  /\ repo \in [ log : SelectLogs, refOk : {TRUE}, logOk : {TRUE},
                 worktreeOk : {TRUE}, headOk : {TRUE} ]
  /\ head = [kind |-> "branch", name |-> "main", hash |-> HashOf(1)]
  /\ headAtCall = head
  /\ images = {}
  /\ docker = [ sizeOf |-> [i \in 1..MaxLog |-> 80],
                timeOf |-> [i \in 1..MaxLog |-> 7],
                histories |-> Histories ]
  /\ ctxDone = FALSE
  /\ mode = "run"
  /\ pc = "start"
  /\ commits = << >>
  /\ idx = 0
  /\ originalRef = NoRef
  /\ results = << >>
  /\ result = NoResult
  /\ cur = NoCommit
  /\ runErr = "none"
  /\ stderr = << >>
  /\ calls = << >>
  /\ BisectIdle
  /\ ReportIdle
  /\ TwinIdle
  /\ RegistryIdle
  /\ CompareIdle

NextSelect == RunStart

SpecSelect == InitSelect /\ [][NextSelect]_vars

\* ------------------------------------------------------------ the Bisector
\* Longest commit range handed to FindRegression.
MaxRange == 4

\* Bytes per MB in "float64(result.ImageSize) / 1024 / 1024".
MiB == 1048576

\* The variables only Run writes.
rvars == << idx, originalRef, results, runErr, stderr >>

Reverse(s) == [i \in 1..Len(s) |-> s[Len(s) + 1 - i]]

\* Position of the commit with hash h in log, 0 if it is not there.
RECURSIVE IndexOfHash(_, _, _)
IndexOfHash(log, h, k) ==
  IF k > Len(log) THEN 0
  ELSE IF log[k].Hash = h THEN k
  ELSE IndexOfHash(log, h, k + 1)

\* repo.Log from hash h: h and its ancestors, newest first.
LogFrom(log, h) ==
  LET p == IndexOfHash(log, h, 1)
  IN IF p = 0 THEN << >> ELSE SubSeq(log, p, Len(log))

\* resolveRevision, for a revision given as a commit hash.
resolveRevision(rp, i) ==
  IF IndexOfHash(rp.log, HashOf(i), 1) # 0
    THEN [err |-> "", hash |-> HashOf(i)]
    ELSE [err |-> "could not resolve revision", hash |-> <<0, 0>>]

\* getAllCommits: the log from HEAD, reversed to oldest first.
getAllCommits(rp, hd) ==
  IF ~rp.headOk THEN [err |-> "reference not found", commits |-> << >>]
  ELSE [err |-> "", commits |-> Reverse(LogFrom(rp.log, hd.hash))]

\* getCommitsBetween: walk back from endHash until startHash, then reverse.
getCommitsBetween(rp, startHash, endHash) ==
  LET walk == LogFrom(rp.log, endHash)
      p == IndexOfHash(walk, startHash, 1)
  IN IF p = 0
       THEN [err |-> "start commit not found in history", commits |-> << >>]
       ELSE [err |-> "", commits |-> Reverse(SubSeq(walk, 1, p))]

getCommitRange(rp, hd, bc) ==
  LET good == resolveRevision(rp, bc.GoodCommit)
      all == getAllCommits(rp, hd)
      bad == resolveRevision(rp, bc.BadCommit)
      startHash == IF bc.GoodCommit # 0 THEN good.hash
                   ELSE IF Len(all.commits) > 0 THEN all.commits[1].Hash
                   ELSE <<0, 0>>
      endHash == IF bc.BadCommit # 0 THEN bad.hash ELSE hd.hash
  IN IF bc.GoodCommit # 0 /\ good.err # ""
       THEN [err |-> "failed to resolve good commit", commits |-> << >>]
     ELSE IF bc.GoodCommit = 0 /\ all.err # ""
       THEN [err |-> all.err, commits |-> << >>]
     ELSE IF bc.BadCommit # 0 /\ bad.err # ""
       THEN [err |-> "failed to resolve bad commit", commits |-> << >>]
     ELSE IF bc.BadCommit = 0 /\ ~rp.headOk
       THEN [err |-> "reference not found", commits |-> << >>]
     ELSE getCommitsBetween(rp, startHash, endHash)

BisectError(e) == [NoBisectRet EXCEPT !.status = "error", !.err = e]

\* BisectStart as it would be if high started at the length of the range
\* instead of its last index.
BisectStartRightIsLen ==
  /\ mode = "bisect"
  /\ pc = "start"
  /\ LET r == getCommitRange(repo, head, bconfig)
     IN IF r.err # ""
          THEN /\ bisectRet' = BisectError(r.err)
               /\ pc' = "returned"
               /\ UNCHANGED << commits, left, right, stdout >>
        ELSE IF Len(r.commits) < 2
          THEN /\ bisectRet' = BisectError("need at least 2 commits to bisect")
               /\ pc' = "returned"
               /\ UNCHANGED << commits, left, right, stdout >>
        ELSE /\ commits' = r.commits
             /\ stdout' = Append(stdout, <<"Bisecting", Len(r.commits)>>)
             /\ left' = 0
             /\ right' = Len(r.commits)
             /\ pc' = "bisect_loop"
             /\ UNCHANGED bisectRet
  /\ UNCHANGED << config, repo, head, headAtCall, images, docker, ctxDone,
                  mode, result, cur, calls, bconfig, mid, badCommit,
                  badResult >>
  /\ UNCHANGED rvars
  /\ UNCHANGED gvars
  /\ UNCHANGED hvars
  /\ UNCHANGED kvars
  /\ UNCHANGED cvars

\* BisectStart as it would be if a range of one commit were accepted.
BisectStartAcceptsOne ==
  /\ mode = "bisect"
  /\ pc = "start"
  /\ LET r == getCommitRange(repo, head, bconfig)
     IN IF r.err # ""
          THEN /\ bisectRet' = BisectError(r.err)
               /\ pc' = "returned"
               /\ UNCHANGED << commits, left, right, stdout >>
        ELSE IF Len(r.commits) < 1
          THEN /\ bisectRet' = BisectError("need at least 2 commits to bisect")
               /\ pc' = "returned"
               /\ UNCHANGED << commits, left, right, stdout >>
        ELSE /\ commits' = r.commits
             /\ stdout' = Append(stdout, <<"Bisecting", Len(r.commits)>>)
             /\ left' = 0
             /\ right' = Len(r.commits) - 1
             /\ pc' = "bisect_loop"
             /\ UNCHANGED bisectRet
  /\ UNCHANGED << config, repo, head, headAtCall, images, docker, ctxDone,
                  mode, result, cur, calls, bconfig, mid, badCommit,
                  badResult >>
  /\ UNCHANGED rvars
  /\ UNCHANGED gvars
  /\ UNCHANGED hvars
  /\ UNCHANGED kvars
  /\ UNCHANGED cvars

\* FindRegression, lines 68-84: the range, the length check, the bounds.
BisectStart ==
  /\ mode = "bisect"
  /\ pc = "start"
  /\ LET r == getCommitRange(repo, head, bconfig)
     IN IF r.err # ""
          THEN /\ bisectRet' = BisectError(r.err)
               /\ pc' = "returned"
               /\ UNCHANGED << commits, left, right, stdout >>
        ELSE IF Len(r.commits) < 2
          THEN /\ bisectRet' = BisectError("need at least 2 commits to bisect")
               /\ pc' = "returned"
               /\ UNCHANGED << commits, left, right, stdout >>
        ELSE /\ commits' = r.commits
             /\ stdout' = Append(stdout, <<"Bisecting", Len(r.commits)>>)
             /\ left' = 0
             /\ right' = Len(r.commits) - 1
             /\ pc' = "bisect_loop"
             /\ UNCHANGED bisectRet
  /\ UNCHANGED << config, repo, head, headAtCall, images, docker, ctxDone,
                  mode, result, cur, calls, bconfig, mid, badCommit,
                  badResult >>
  /\ UNCHANGED rvars
  /\ UNCHANGED gvars
  /\ UNCHANGED hvars
  /\ UNCHANGED kvars
  /\ UNCHANGED cvars

\* BisectLoop as it would be if the measurements returned were those of the
\* last probe instead of those recorded with the candidate.
BisectLoopReportsLastProbe ==
  /\ mode = "bisect"
  /\ pc = "bisect_loop"
  /\ IF left <= right
       THEN LET m == (left + right) \div 2
            IN /\ mid' = m
               /\ cur' = commits[m + 1]
               /\ result' = NewResult(commits[m + 1])
               /\ stdout' = Append(stdout,
                                   <<"Testing commit", commits[m + 1].Hash>>)
               /\ pc' = "ac_checkout"
               /\ UNCHANGED bisectRet
       ELSE /\ bisectRet' =
                 IF badCommit = NoCommit
                   THEN BisectError("no regression found in the commit range")
                   ELSE [ status |-> "found", err |-> "",
                          CommitHash |-> badCommit.Hash,
                          SizeMB |-> result.ImageSize \div MiB,
                          BuildTime |-> result.BuildTime ]
            /\ pc' = "returned"
            /\ UNCHANGED << mid, cur, result, stdout >>
  /\ UNCHANGED << config, repo, head, headAtCall, images, docker, ctxDone,
                  mode, commits, calls, bconfig, left, right, badCommit,
                  badResult >>
  /\ UNCHANGED rvars
  /\ UNCHANGED gvars
  /\ UNCHANGED hvars
  /\ UNCHANGED kvars
  /\ UNCHANGED cvars

\* BisectLoop as it would be if the search put the working tree back where
\* it was at the call before returning.
BisectLoopRestoresTree ==
  /\ mode = "bisect"
  /\ pc = "bisect_loop"
  /\ IF left <= right
       THEN LET m == (left + right) \div 2
            IN /\ mid' = m
               /\ cur' = commits[m + 1]
               /\ result' = NewResult(commits[m + 1])
               /\ stdout' = Append(stdout,
                                   <<"Testing commit", commits[m + 1].Hash>>)
               /\ pc' = "ac_checkout"
               /\ UNCHANGED << bisectRet, head >>
       ELSE /\ bisectRet' =
                 IF badCommit = NoCommit
                   THEN BisectError("no regression found in the commit range")
                   ELSE [ status |-> "found", err |-> "",
                          CommitHash |-> badCommit.Hash,
                          SizeMB |-> badResult.ImageSize \div MiB,
                          BuildTime |-> badResult.BuildTime ]
            /\ head' = headAtCall
            /\ pc' = "returned"
            /\ UNCHANGED << mid, cur, result, stdout >>
  /\ UNCHANGED << config, repo, headAtCall, images, docker, ctxDone,
                  mode, commits, calls, bconfig, left, right, badCommit,
                  badResult >>
  /\ UNCHANGED rvars
  /\ UNCHANGED gvars
  /\ UNCHANGED hvars
  /\ UNCHANGED kvars
  /\ UNCHANGED cvars

\* FindRegression, lines 86-95 and 127-138: the loop test; either the probe
\* of commits[mid] starts or the search ends and the outcome is returned.
BisectLoop ==
  /\ mode = "bisect"
  /\ pc = "bisect_loop"
  /\ IF left <= right
       THEN LET m == (left + right) \div 2
            IN /\ mid' = m
               /\ cur' = commits[m + 1]
               /\ result' = NewResult(commits[m + 1])
               /\ stdout' = Append(stdout,
                                   <<"Testing commit", commits[m + 1].Hash>>)
               /\ pc' = "ac_checkout"
               /\ UNCHANGED bisectRet
       ELSE /\ bisectRet' =
                 IF badCommit = NoCommit
                   THEN BisectError("no regression found in the commit range")
                   ELSE [ status |-> "found", err |-> "",
                          CommitHash |-> badCommit.Hash,
                          SizeMB |-> badResult.ImageSize \div MiB,
                          BuildTime |-> badResult.BuildTime ]
            /\ pc' = "returned"
            /\ UNCHANGED << mid, cur, result, stdout >>
  /\ UNCHANGED << config, repo, head, headAtCall, images, docker, ctxDone,
                  mode, commits, calls, bconfig, left, right, badCommit,
                  badResult >>
  /\ UNCHANGED rvars
  /\ UNCHANGED gvars
  /\ UNCHANGED hvars
  /\ UNCHANGED kvars
  /\ UNCHANGED cvars

\* exceedsThreshold, lines 103-113.  sizeMB > SizeThreshold is decided on
\* the byte count, which is exact.
SizeExceeds(r, bc) ==
  bc.SizeThreshold > 0 /\ r.ImageSize > bc.SizeThreshold * MiB

TimeExceeds(r, bc) ==
  bc.TimeThreshold > 0 /\ r.BuildTime > bc.TimeThreshold

\* exceedsThreshold as it would be with >= for > in both comparisons.
ExceedsThresholdOrEqual(r, bc) ==
  \/ bc.SizeThreshold > 0 /\ r.ImageSize >= bc.SizeThreshold * MiB
  \/ bc.TimeThreshold > 0 /\ r.BuildTime >= bc.TimeThreshold

ExceedsThreshold(r, bc) == SizeExceeds(r, bc) \/ TimeExceeds(r, bc)

\* BisectDecide as it would be if a failed probe were taken for a bad one.
BisectDecideFailedIsBad ==
  /\ mode = "bisect"
  /\ pc = "ac_return"
  /\ IF result.Error # "" \/ ExceedsThreshold(result, bconfig)
       THEN /\ badCommit' = cur
            /\ badResult' = result
            /\ right' = mid - 1
            /\ UNCHANGED << left, stdout >>
       ELSE /\ stdout' = Append(stdout, <<"Within threshold", 0>>)
            /\ left' = mid + 1
            /\ UNCHANGED << right, badCommit, badResult >>
  /\ pc' = "bisect_loop"
  /\ UNCHANGED << config, repo, head, headAtCall, images, docker, ctxDone,
                  mode, commits, result, cur, calls, bconfig, mid, bisectRet >>
  /\ UNCHANGED rvars
  /\ UNCHANGED gvars
  /\ UNCHANGED hvars
  /\ UNCHANGED kvars
  /\ UNCHANGED cvars

\* BisectDecide as it would be if it searched the later half after a bad
\* probe and the earlier half after a good one.
BisectDecideWrongHalf ==
  /\ mode = "bisect"
  /\ pc = "ac_return"
  /\ IF result.Error # ""
       THEN /\ left' = mid + 1
            /\ UNCHANGED << right, badCommit, badResult, stdout >>
       ELSE IF ExceedsThreshold(result, bconfig)
       THEN /\ badCommit' = cur
            /\ badResult' = result
            /\ left' = mid + 1
            /\ UNCHANGED << right, stdout >>
       ELSE /\ right' = mid - 1
            /\ UNCHANGED << left, badCommit, badResult, stdout >>
  /\ pc' = "bisect_loop"
  /\ UNCHANGED << config, repo, head, headAtCall, images, docker, ctxDone,
                  mode, commits, result, cur, calls, bconfig, mid, bisectRet >>
  /\ UNCHANGED rvars
  /\ UNCHANGED gvars
  /\ UNCHANGED hvars
  /\ UNCHANGED kvars
  /\ UNCHANGED cvars

\* BisectDecide as it would be if a bad probe kept mid inside the range
\* (high = mid for high = mid - 1).
BisectDecideKeepsMid ==
  /\ mode = "bisect"
  /\ pc = "ac_return"
  /\ IF result.Error # ""
       THEN /\ stdout' = Append(stdout, <<"Build failed, skipping", 0>>)
            /\ left' = mid + 1
            /\ UNCHANGED << right, badCommit, badResult >>
       ELSE LET printed ==
                  (IF SizeExceeds(result, bconfig)
                     THEN << <<"Size exceeds threshold", result.ImageSize>> >>
                     ELSE << >>)
                  \o (IF TimeExceeds(result, bconfig)
                        THEN << <<"Build time exceeds threshold",
                                  result.BuildTime>> >>
                        ELSE << >>)
            IN IF ExceedsThreshold(result, bconfig)
                 THEN /\ badCommit' = cur
                      /\ badResult' = result
                      /\ right' = mid
                      /\ stdout' = stdout \o printed
                      /\ UNCHANGED left
                 ELSE /\ stdout' = Append(stdout, <<"Within threshold", 0>>)
                      /\ left' = mid + 1
                      /\ UNCHANGED << right, badCommit, badResult >>
  /\ pc' = "bisect_loop"
  /\ UNCHANGED << config, repo, head, headAtCall, images, docker, ctxDone,
                  mode, commits, result, cur, calls, bconfig, mid, bisectRet >>
  /\ UNCHANGED rvars
  /\ UNCHANGED gvars
  /\ UNCHANGED hvars
  /\ UNCHANGED kvars
  /\ UNCHANGED cvars

\* FindRegression, lines 95-124: AnalyzeCommit has returned; narrow the range.
BisectDecide ==
  /\ mode = "bisect"
  /\ pc = "ac_return"
  /\ IF result.Error # ""
       THEN /\ stdout' = Append(stdout, <<"Build failed, skipping", 0>>)
            /\ left' = mid + 1
            /\ UNCHANGED << right, badCommit, badResult >>
       ELSE LET printed ==
                  (IF SizeExceeds(result, bconfig)
                     THEN << <<"Size exceeds threshold", result.ImageSize>> >>
                     ELSE << >>)
                  \o (IF TimeExceeds(result, bconfig)
                        THEN << <<"Build time exceeds threshold",
                                  result.BuildTime>> >>
                        ELSE << >>)
            IN IF ExceedsThreshold(result, bconfig)
                 THEN /\ badCommit' = cur
                      /\ badResult' = result
                      /\ right' = mid - 1
                      /\ stdout' = stdout \o printed
                      /\ UNCHANGED left
                 ELSE /\ stdout' = Append(stdout, <<"Within threshold", 0>>)
                      /\ left' = mid + 1
                      /\ UNCHANGED << right, badCommit, badResult >>
  /\ pc' = "bisect_loop"
  /\ UNCHANGED << config, repo, head, headAtCall, images, docker, ctxDone,
                  mode, commits, result, cur, calls, bconfig, mid, bisectRet >>
  /\ UNCHANGED rvars
  /\ UNCHANGED gvars
  /\ UNCHANGED hvars
  /\ UNCHANGED kvars
  /\ UNCHANGED cvars

\* Image sizes of the commits bisected: below and above the thresholds.
BisectSizes == {300 * MiB, 600 * MiB}

\* Sizes 300, 320, 600, 650 MB, oldest to newest.
ScenarioBSizes == <<300 * MiB, 320 * MiB, 600 * MiB, 650 * MiB>>

\* The thresholds are set one at a time, as the bisect command requires.
BisectConfigs ==
  [ SizeThreshold : {300, 500}, TimeThreshold : {0}, GoodCommit : {0},
    BadCommit : {0} ]
  \cup
  [ SizeThreshold : {0}, TimeThreshold : {5}, GoodCommit : {0},
    BadCommit : {0} ]

\* Ranges given explicitly by --good and --bad.
BisectExplicit ==
  { [SizeThreshold |-> 500, TimeThreshold |-> 0, GoodCommit |-> g,
     BadCommit |-> b] : g \in {0, 2}, b \in {0, 1, 3} } \ BisectConfigs

\* What the container runtime answers for a repository of n commits under
\* configuration bc.  The measurement the configuration does not look at is
\* held fixed.
DockersFor(n, bc) ==
  [ sizeOf : IF bc.SizeThreshold > 0 /\ bc.GoodCommit = 0 /\ bc.BadCommit = 0
               THEN [1..n -> BisectSizes]
                    \cup (IF n = 4 THEN {ScenarioBSizes} ELSE {})
               ELSE {[i \in 1..n |-> 600 * MiB]},
    timeOf : IF bc.TimeThreshold > 0
               THEN [1..n -> {3, 7}]
               ELSE {[i \in 1..n |-> 7]},
    histories : {{ << [CreatedBy |-> <<"SH", "RUN a">>, Size |-> 5] >> }} ]

InitBisect ==
  /\ bconfig \in BisectConfigs \cup BisectExplicit
  /\ \E n \in 0..MaxRange :
       /\ repo \in [ log : {LogOfLen(n)}, refOk : {TRUE}, logOk : {TRUE},
                      worktreeOk : IF n = 2 THEN BOOLEAN ELSE {TRUE},
                      headOk : {n > 0} ]
       /\ head \in { [kind |-> "branch", name |-> "main", hash |-> HashOf(n)] }
       /\ docker \in DockersFor(n, bconfig)
  /\ headAtCall = head
  /\ config = [ SkipFailed |-> FALSE, Verbose |-> FALSE, Since |-> 0,
                Until |-> 0, MaxCommits |-> 1 ]
  /\ images = {}
  /\ ctxDone = FALSE
  /\ mode = "bisect"
  /\ pc = "start"
  /\ commits = << >>
  /\ idx = 0
  /\ originalRef = NoRef
  /\ results = << >>
  /\ result = NoResult
  /\ cur = NoCommit
  /\ runErr = "none"
  /\ stderr = << >>
  /\ calls = << >>
  /\ left = 0
  /\ right = 0
  /\ mid = 0
  /\ badCommit = NoCommit
  /\ badResult = NoResult
  /\ bisectRet = NoBisectRet
  /\ stdout = << >>
  /\ ReportIdle
  /\ TwinIdle
  /\ RegistryIdle
  /\ CompareIdle

NextBisect ==
  \/ BisectStart
  \/ BisectLoop
  \/ AcCheckout
  \/ AcBuild
  \/ AcInspect
  \/ AcHistory
  \/ AcRemove
  \/ AcPanic
  \/ Cancel
  \/ BisectDecide

SpecBisect == InitBisect /\ [][NextBisect]_vars

\* The steps FindRegression takes by itself.  It runs on one goroutine and
\* every collaborator call it makes is taken to return, so a step that is
\* possible is eventually taken; a cancellation or a panic need never come.
BisectStep ==
  \/ BisectStart
  \/ BisectLoop
  \/ AcCheckout
  \/ AcBuild
  \/ AcInspect
  \/ AcHistory
  \/ AcRemove
  \/ BisectDecide

\* Longest range of the shorter searches.
MaxShortRange == 3

InitBisectShort == InitBisect /\ Len(repo.log) <= MaxShortRange

SpecBisectLive ==
  InitBisectShort /\ [][NextBisect]_vars /\ WF_vars(BisectStep)

\* ------------------------------------------- Run and FindRegression together
\* Either entry point is called on a fresh TimeMachine: Run, or
\* FindRegression over one of the shorter ranges.
InitBoth == Init \/ InitBisectShort

NextBoth ==
  \/ mode = "run" /\ Next
  \/ mode = "bisect" /\ NextBisect

SpecBoth == InitBoth /\ [][NextBoth]_vars

\* --------------------------------------------------------- GenerateReport
\* 16^4: dropping the last four of twelve hex digits.
Hex4 == 16 * 16 * 16 * 16

\* result.CommitHash[:8], the first 8 hex digits of the hash.
Short8(hash) == hash[1] \div Hex4

\* LayerInfo.SizeMB, float64(layer.Size) / 1024 / 1024 (analyzeCommit, line
\* 346).  The layers handed to the comparison have whole-MiB sizes, for which
\* the quotient is exact.
SizeMB(layer) == layer.Size \div MiB

IsValid(r) == r.Error = ""

\* validResults: the results without an error, in sequence order.
ValidResults(rs) == SelectSeq(rs, IsValid)

\* findBloatCommit's loop from index i on: max is maxIncrease, best the
\* index bloatCommit points at (0 for nil).
RECURSIVE BloatFrom(_, _, _, _)
BloatFrom(rs, i, max, best) ==
  IF i > Len(rs) THEN best
  ELSE IF rs[i].Error = "" /\ rs[i].SizeDiff > max
    THEN BloatFrom(rs, i + 1, rs[i].SizeDiff, i)
  ELSE BloatFrom(rs, i + 1, max, best)

\* BloatFrom with >= for >.
RECURSIVE BloatFromLast(_, _, _, _)
BloatFromLast(rs, i, max, best) ==
  IF i > Len(rs) THEN best
  ELSE IF rs[i].Error = "" /\ rs[i].SizeDiff >= max
    THEN BloatFromLast(rs, i + 1, rs[i].SizeDiff, i)
  ELSE BloatFromLast(rs, i + 1, max, best)

\* findBloatCommit as it would be if a later result replaced an earlier one
\* of equal delta.
findBloatCommitLastOnTies(rs) == BloatFromLast(rs, 1, 0, 0)

\* BloatFrom comparing the magnitude of the delta instead of the delta.
RECURSIVE BloatFromMagnitude(_, _, _, _)
BloatFromMagnitude(rs, i, max, best) ==
  IF i > Len(rs) THEN best
  ELSE LET d == IF rs[i].SizeDiff < 0 THEN 0 - rs[i].SizeDiff
                ELSE rs[i].SizeDiff
       IN IF rs[i].Error = "" /\ d > max
            THEN BloatFromMagnitude(rs, i + 1, d, i)
            ELSE BloatFromMagnitude(rs, i + 1, max, best)

\* findBloatCommit as it would be if the largest change in either direction
\* were taken for the largest increase.
findBloatCommitByMagnitude(rs) == BloatFromMagnitude(rs, 1, 0, 0)

findBloatCommit(rs) == BloatFrom(rs, 1, 0, 0)

\* findOptimizationCommit's loop from index i on.
RECURSIVE OptimizationFrom(_, _, _, _)
OptimizationFrom(rs, i, min, best) ==
  IF i > Len(rs) THEN best
  ELSE IF rs[i].Error = "" /\ rs[i].SizeDiff < min
    THEN OptimizationFrom(rs, i + 1, rs[i].SizeDiff, i)
  ELSE OptimizationFrom(rs, i + 1, min, best)

\* OptimizationFrom with <= for <.
RECURSIVE OptimizationFromLast(_, _, _, _)
OptimizationFromLast(rs, i, min, best) ==
  IF i > Len(rs) THEN best
  ELSE IF rs[i].Error = "" /\ rs[i].SizeDiff <= min
    THEN OptimizationFromLast(rs, i + 1, rs[i].SizeDiff, i)
  ELSE OptimizationFromLast(rs, i + 1, min, best)

\* findOptimizationCommit as it would be if a delta of zero counted as a
\* decrease and a later result replaced an earlier one of equal delta.
findOptimizationCommitLastOnTies(rs) == OptimizationFromLast(rs, 1, 0, 0)

findOptimizationCommit(rs) == OptimizationFrom(rs, 1, 0, 0)

InSeq(x, s) == \E k \in 1..Len(s) : s[k] = x

\* buildLayerComparison, lines 366-371 / 376-381: append the commands of one
\* result's layers that layerCommandSet does not hold yet.
RECURSIVE CollectCommands(_, _)
CollectCommands(layers, acc) ==
  IF layers = << >> THEN acc
  ELSE IF InSeq(Head(layers).CreatedBy, acc)
    THEN CollectCommands(Tail(layers), acc)
  ELSE CollectCommands(Tail(layers), Append(acc, Head(layers).CreatedBy))

\* Lines 365-382: the first result's layers, then those of validResults[1:].
RECURSIVE CollectAll(_, _)
CollectAll(rs, acc) ==
  IF rs = << >> THEN acc
  ELSE CollectAll(Tail(rs), CollectCommands(Head(rs).Layers, acc))

\* Lines 394-404: the SizeMB of the first layer whose command is cmd (the
\* scan breaks there), -1 when there is none.
RECURSIVE FirstMatch(_, _)
FirstMatch(layers, cmd) ==
  IF layers = << >> THEN -1
  ELSE IF Head(layers).CreatedBy = cmd THEN SizeMB(Head(layers))
  ELSE FirstMatch(Tail(layers), cmd)

\* Lines 387-405: the map of one row.  Its keys are the 8-digit hash
\* prefixes; results are written in sequence order, so of several results
\* with one prefix the last one's value stays.
SizeByCommit(valid, cmd) ==
  [ key \in { Short8(valid[i].CommitHash) : i \in 1..Len(valid) } |->
      LET last == CHOOSE i \in 1..Len(valid) :
                    /\ Short8(valid[i].CommitHash) = key
                    /\ \A j \in 1..Len(valid) :
                         Short8(valid[j].CommitHash) = key => j <= i
      IN FirstMatch(valid[last].Layers, cmd) ]

RowsFor(valid, cmds) ==
  [ k \in 1..Len(cmds) |->
      [ LayerCommand |-> cmds[k], SizeByCommit |-> SizeByCommit(valid, cmds[k]) ] ]

\* CollectAll without layerCommandSet carried from one result to the next.
RECURSIVE CollectPerResult(_)
CollectPerResult(rs) ==
  IF rs = << >> THEN << >>
  ELSE CollectCommands(Head(rs).Layers, << >>) \o CollectPerResult(Tail(rs))

\* buildLayerComparison as it would be if every result's commands were
\* listed anew.
buildLayerComparisonPerResult(valid) ==
  [ layerCommands |-> CollectPerResult(valid),
    comparisons |-> RowsFor(valid, CollectPerResult(valid)) ]

\* buildLayerComparison for a non-empty validResults.
buildLayerComparison(valid) ==
  [ layerCommands |-> CollectAll(valid, << >>),
    comparisons |-> RowsFor(valid, CollectAll(valid, << >>)) ]

\* The formats GenerateReport's switch knows.
Formats == {"table", "json", "csv", "markdown", "chart"}

\* cmd/analyze.go lines 84-104: after Run returned nil, GenerateReport.
\*   table     findBloatCommit, findOptimizationCommit, and
\*             buildLayerComparison if there is a valid result (476-490);
\*   markdown  buildLayerComparison if there is a valid result (658-694);
\*   json, csv, chart  buildLayerComparison unguarded (562, 625, 753): with
\*             no valid result its validResults[1:] is out of range and the
\*             call panics.
GenerateReport ==
  /\ mode = "run"
  /\ pc = "returned"
  /\ runErr = "nil"
  /\ \E f \in Formats :
       LET valid == ValidResults(results)
           table == buildLayerComparison(valid)
       IN /\ format' = f
          /\ IF f = "table"
               THEN /\ bloat' = findBloatCommit(results)
                    /\ optimization' = findOptimizationCommit(results)
               ELSE UNCHANGED << bloat, optimization >>
          /\ IF Len(valid) > 0
               THEN /\ layerCommands' = table.layerCommands
                    /\ comparisons' = table.comparisons
                    /\ pc' = "reported"
               ELSE /\ UNCHANGED << layerCommands, comparisons >>
                    /\ pc' = IF f \in {"table", "markdown"} THEN "reported"
                             ELSE "report_panicked"
  /\ UNCHANGED << config, repo, head, headAtCall, images, docker, ctxDone,
                  mode, commits, result, cur, calls >>
  /\ UNCHANGED rvars
  /\ UNCHANGED bvars
  /\ UNCHANGED hvars
  /\ UNCHANGED kvars
  /\ UNCHANGED cvars

\* ------------------------------------- the delta pass followed by the report
\* Run from the point where the build loop has drained, then GenerateReport.
NextReport ==
  \/ RunDiff
  \/ RunRestore
  \/ GenerateReport

SpecReport == InitDiff /\ [][NextReport]_vars

\* ------------------------------------------------- Run, then GenerateReport
\* runAnalyze: Run on a fresh TimeMachine and, when it returned nil,
\* GenerateReport in the chosen format.
NextRunReport ==
  \/ Next
  \/ GenerateReport

\* The runs reported on: quiet ones started on a branch.
InitRunReport == Init /\ ~config.Verbose /\ head.kind = "branch"

SpecRunReport == InitRunReport /\ [][NextRunReport]_vars

\* ------------------------------------------- the layer comparison on its own
\* Longest result sequence handed to GenerateReport.
MaxLayerResults == 3

\* History listings as GetImageHistory answers them, before normalisation.
LayerHistorySeq ==
  << << [CreatedBy |-> <<"SH", "RUN apt-get install x">>, Size |-> 10 * MiB] >>,
     << [CreatedBy |-> <<"RUN apt-get install x">>, Size |-> 12 * MiB],
        [CreatedBy |-> <<"SH", "NOP", "CMD">>, Size |-> 0],
        [CreatedBy |-> <<"COPY . /app">>, Size |-> 1 * MiB] >>,
     << [CreatedBy |-> <<"SH", "RUN apt-get install x">>, Size |-> 10 * MiB],
        [CreatedBy |-> <<"RUN apt-get install x", "SP">>, Size |-> 12 * MiB] >>,
     << [CreatedBy |-> <<"COPY . /app">>, Size |-> 1 * MiB] >>,
     << [CreatedBy |-> <<"COPY . /app">>, Size |-> 1 * MiB],
        [CreatedBy |-> <<"SH", "RUN apt-get install x">>, Size |-> 10 * MiB] >>,
     << >> >>

\* The hash of the i-th commit analysed.  Hashes are distinct; with shared
\* set they agree in their first 8 hex digits and differ after them.
LayerHash(i, shared) == IF shared THEN HashOf(Hex4 + i) ELSE HashOf(i * Hex4)

\* A BuildResult as analyzeCommit returns it for the i-th commit: failed
\* (o = 0), or measured with the layers kept from listing o.
LayerResultFor(i, shared, o) ==
  LET c == [Hash |-> LayerHash(i, shared), When |-> WhenOf(i)]
  IN IF o = 0
       THEN [NewResult(c) EXCEPT !.Error = "build failed"]
       ELSE [NewResult(c) EXCEPT !.ImageSize = 100 * MiB, !.BuildTime = 7,
                                 !.LayerCount = 2,
                                 !.Layers = KeptLayers(LayerHistorySeq[o])]

LayerResultSeqs ==
  UNION { { [i \in 1..n |-> LayerResultFor(i, s, f[i])] :
              f \in [1..n -> 0..Len(LayerHistorySeq)], s \in BOOLEAN } :
          n \in 1..MaxLayerResults }

\* Run has returned nil, for every sequence of results it can have left in
\* tm.results.
InitLayers ==
  /\ config \in [ SkipFailed : {FALSE}, Verbose : {FALSE}, Since : {0},
                   Until : {0}, MaxCommits : {0} ]
  /\ \E rs \in LayerResultSeqs :
       /\ results = SizeDiffPass(rs)
       /\ commits = [i \in 1..Len(rs) |->
                       [Hash |-> rs[i].CommitHash, When |-> rs[i].Date]]
       /\ repo = [ log |-> commits, refOk |-> TRUE, logOk |-> TRUE,
                   worktreeOk |-> TRUE, headOk |-> TRUE ]
       /\ idx = Len(rs) + 1
  /\ headAtCall \in Heads
  /\ originalRef = headAtCall
  /\ head = headAtCall
  /\ images = {}
  /\ docker = [ sizeOf |-> [i \in 1..MaxLayerResults |-> 100 * MiB],
                timeOf |-> [i \in 1..MaxLayerResults |-> 7],
                histories |-> Histories ]
  /\ ctxDone = FALSE
  /\ mode = "run"
  /\ pc = "returned"
  /\ result = NoResult
  /\ cur = NoCommit
  /\ runErr = "nil"
  /\ stderr = << "found" >>
  /\ calls = << >>
  /\ BisectIdle
  /\ ReportIdle
  /\ TwinIdle
  /\ RegistryIdle
  /\ CompareIdle

NextLayers == GenerateReport

SpecLayers == InitLayers /\ [][NextLayers]_vars

\* ------------------------------------------------------------ runRegistry
\* Most tags the registry lists for the image.
MaxTags == 3

\* What GetImageMetadata answers for a tag: an error, or the creation time
\* and the size of the image.
RegistryAnswers ==
  { [ok |-> FALSE, Created |-> 0, Size |-> 0] }
  \cup [ ok : {TRUE}, Created : {21, 22}, Size : {50, 70} ]

\* analyzeRegistryImageMetadata: the RegistryResult of one tag.  Digest,
\* LayerCount and Layers are copied from the metadata and read by neither
\* the sort nor the delta loop; they are left out.
analyzeRegistryImageMetadata(tag) ==
  IF registry.meta[tag].ok
    THEN [ Tag |-> tag, Created |-> registry.meta[tag].Created,
           Size |-> registry.meta[tag].Size, SizeDiff |-> 0, Error |-> "" ]
    ELSE [ Tag |-> tag, Created |-> 0, Size |-> 0, SizeDiff |-> 0,
           Error |-> "metadata fetch failed" ]

\* The less function as it would be if older tags were put first.
RegistryLessOldestFirst(a, b) ==
  IF a.Error # "" /\ b.Error = "" THEN FALSE
  ELSE IF a.Error = "" /\ b.Error # "" THEN TRUE
  ELSE IF a.Error # "" /\ b.Error # "" THEN a.Tag < b.Tag
  ELSE a.Created < b.Created

\* runRegistry's less function: failed results last, those by tag; the
\* others by creation time, later first.
RegistryLess(a, b) ==
  IF a.Error # "" /\ b.Error = "" THEN FALSE
  ELSE IF a.Error = "" /\ b.Error # "" THEN TRUE
  ELSE IF a.Error # "" /\ b.Error # "" THEN a.Tag < b.Tag
  ELSE a.Created > b.Created

\* sort.Slice is not stable: it may leave the slice in any order in which no
\* element is less than one before it.
SortedOrders(rs) ==
  LET n == Len(rs)
      perms == { p \in [1..n -> 1..n] : \A i, j \in 1..n : i # j => p[i] # p[j] }
  IN { [i \in 1..n |-> rs[p[i]]] : p \in
         { q \in perms : \A i, j \in 1..n :
                           i < j => ~RegistryLess(rs[q[j]], rs[q[i]]) } }

\* runRegistry's delta loop: each result without error gets its size minus
\* the size of the next result without error.
RegistryDiffPass(rs) ==
  [ i \in 1..Len(rs) |->
      IF rs[i].Error # "" \/ i >= Len(rs) THEN rs[i]
      ELSE LET j == NextOk(rs, i + 1)
           IN IF j = 0 THEN rs[i]
              ELSE [rs[i] EXCEPT !.SizeDiff = rs[i].Size - rs[j].Size] ]

\* runRegistry up to its loop: getTagsToAnalyze.
RegStart ==
  /\ mode = "registry"
  /\ pc = "start"
  /\ IF ~registry.listOk \/ registry.names = << >>
       THEN /\ regErr' = "failed to get tags"
            /\ pc' = "returned"
            /\ UNCHANGED tags
       ELSE /\ tags' = registry.names
            /\ pc' = "reg_fetch"
            /\ UNCHANGED regErr
  /\ UNCHANGED << config, repo, head, headAtCall, images, docker, ctxDone,
                  mode, commits, result, cur, calls, registry, regResults >>
  /\ UNCHANGED rvars
  /\ UNCHANGED bvars
  /\ UNCHANGED gvars
  /\ UNCHANGED hvars
  /\ UNCHANGED cvars

\* One turn of runRegistry's loop over the tags.
RegFetch ==
  /\ mode = "registry"
  /\ pc = "reg_fetch"
  /\ Len(regResults) < Len(tags)
  /\ regResults' =
       Append(regResults,
              analyzeRegistryImageMetadata(tags[Len(regResults) + 1]))
  /\ UNCHANGED << config, repo, head, headAtCall, images, docker, ctxDone,
                  mode, pc, commits, result, cur, calls, registry, tags,
                  regErr >>
  /\ UNCHANGED rvars
  /\ UNCHANGED bvars
  /\ UNCHANGED gvars
  /\ UNCHANGED hvars
  /\ UNCHANGED cvars

\* runRegistry after its loop: the error summary, the sort, the delta loop
\* and the report.
RegFinish ==
  /\ mode = "registry"
  /\ pc = "reg_fetch"
  /\ Len(regResults) = Len(tags)
  /\ LET failed == { i \in 1..Len(regResults) : regResults[i].Error # "" }
     IN /\ stderr' = IF failed # {}
                       THEN Append(stderr, "tags failed to fetch metadata")
                       ELSE stderr
        /\ IF Cardinality(failed) = Len(regResults)
             THEN /\ regErr' = "all tags failed to fetch metadata"
                  /\ UNCHANGED regResults
             ELSE /\ \E sorted \in SortedOrders(regResults) :
                       regResults' = RegistryDiffPass(sorted)
                  /\ regErr' = "nil"
  /\ pc' = "returned"
  /\ UNCHANGED << config, repo, head, headAtCall, images, docker, ctxDone,
                  mode, commits, idx, originalRef, results, result, cur,
                  runErr, calls, registry, tags >>
  /\ UNCHANGED bvars
  /\ UNCHANGED gvars
  /\ UNCHANGED hvars
  /\ UNCHANGED cvars

\* runRegistry called for an image with up to MaxTags tags.
InitRegistry ==
  /\ \E n \in 0..MaxTags :
       registry \in [ listOk : BOOLEAN, names : {[i \in 1..n |-> i]},
                      meta : [1..MaxTags -> RegistryAnswers] ]
  /\ tags = << >>
  /\ regResults = << >>
  /\ regErr = "none"
  /\ mode = "registry"
  /\ pc = "start"
  /\ config = [ SkipFailed |-> FALSE, Verbose |-> FALSE, Since |-> 0,
                Until |-> 0, MaxCommits |-> 0 ]
  /\ repo = [ log |-> << >>, refOk |-> TRUE, logOk |-> TRUE,
              worktreeOk |-> TRUE, headOk |-> TRUE ]
  /\ head = NoRef
  /\ headAtCall = NoRef
  /\ images = {}
  /\ docker = [ sizeOf |-> << >>, timeOf |-> << >>, histories |-> {} ]
  /\ ctxDone = FALSE
  /\ commits = << >>
  /\ idx = 0
  /\ originalRef = NoRef
  /\ results = << >>
  /\ result = NoResult
  /\ cur = NoCommit
  /\ runErr = "none"
  /\ stderr = << >>
  /\ calls = << >>
  /\ BisectIdle
  /\ ReportIdle
  /\ TwinIdle
  /\ CompareIdle

NextRegistry ==
  \/ RegStart
  \/ RegFetch
  \/ RegFinish

SpecRegistry == InitRegistry /\ [][NextRegistry]_vars

\* ----------------------------------------------------------------- Compare
\* ImageName of buildBranch, line 155: "dtm-compare-" and the first 12 hex
\* digits of the hash.
CompareImageName(hash) == <<"dtm-compare", hash[1]>>

\* buildBranch, lines 130-137: the name is looked up under refs/heads/ and,
\* failing that, under refs/tags/.
resolveReference(name) ==
  IF name \in DOMAIN refs.heads
    THEN [ok |-> TRUE, hash |-> refs.heads[name]]
  ELSE IF name \in DOMAIN refs.tags
    THEN [ok |-> TRUE, hash |-> refs.tags[name]]
  ELSE [ok |-> FALSE, hash |-> <<0, 0>>]

CompareError(e) == [ status |-> "error", err |-> e ]

\* The locals of one buildBranch call.
NewBranchBuild(name) ==
  [ Name |-> name, Hash |-> <<0, 0>>, Size |-> 0, Layers |-> 0,
    BuildTime |-> 0, Error |-> "" ]

\* The BranchInfo buildBranch returns, lines 175-181.  The images measured
\* have whole-MiB sizes, for which the float quotient is exact.
BranchInfoOf(b) ==
  [ Name |-> b.Name, Commit |-> Short8(b.Hash), SizeMB |-> b.Size \div MiB,
    Layers |-> b.Layers, BuildTime |-> b.BuildTime ]

\* (diff / base) * 100 of lines 117-122; the measurements are chosen so that
\* the quotient is a whole number.
PercentOf(diff, base) == IF base > 0 THEN (diff * 100) \div base ELSE 0

\* The CompareResult of lines 108-122.
CompareResultOf(a, b) ==
  [ status |-> "ok", err |-> "",
    BranchA |-> a, BranchB |-> b,
    SizeDiff |-> b.SizeMB - a.SizeMB,
    SizeDiffPercent |-> PercentOf(b.SizeMB - a.SizeMB, a.SizeMB),
    LayersDiff |-> b.Layers - a.Layers,
    BuildTimeDiff |-> b.BuildTime - a.BuildTime,
    BuildTimeDiffPercent |-> PercentOf(b.BuildTime - a.BuildTime, a.BuildTime) ]

\* What Compare leaves alone in every step.
CompareFrame ==
  /\ UNCHANGED << config, repo, headAtCall, docker, ctxDone, mode, commits,
                  cur, results, runErr, stderr, refs, branchArgs >>
  /\ UNCHANGED << bconfig, left, right, mid, badCommit, badResult,
                  bisectRet >>
  /\ UNCHANGED gvars
  /\ UNCHANGED hvars
  /\ UNCHANGED kvars

\* Compare, lines 67-83: the worktree and HEAD are read, then branch A is
\* announced and handed to buildBranch.
CompareStart ==
  /\ mode = "compare"
  /\ pc = "start"
  /\ IF ~repo.worktreeOk
       THEN /\ compareRet' = CompareError("failed to get worktree")
            /\ pc' = "returned"
            /\ UNCHANGED << originalRef, idx, result, stdout >>
     ELSE IF ~repo.headOk
       THEN /\ compareRet' = CompareError("failed to get HEAD")
            /\ pc' = "returned"
            /\ UNCHANGED << originalRef, idx, result, stdout >>
     ELSE /\ originalRef' = head
          /\ idx' = 1
          /\ result' = NewBranchBuild(branchArgs[1])
          /\ stdout' = IF config.Verbose
                         THEN Append(stdout, <<"Building branch", branchArgs[1]>>)
                         ELSE stdout
          /\ pc' = "cb_resolve"
          /\ UNCHANGED compareRet
  /\ UNCHANGED << head, images, calls, infos >>
  /\ CompareFrame

\* buildBranch, lines 130-137, and Compare's return of its error, lines
\* 85-87 and 94-96.
CbResolve ==
  /\ mode = "compare"
  /\ pc = "cb_resolve"
  /\ LET r == resolveReference(result.Name)
     IN /\ calls' = Append(calls, Call("resolve", result.Name, r.ok))
        /\ IF r.ok
             THEN /\ result' = [result EXCEPT !.Hash = r.hash]
                  /\ pc' = "cb_checkout"
                  /\ UNCHANGED compareRet
             ELSE /\ compareRet' = CompareError("failed to resolve reference")
                  /\ pc' = "returned"
                  /\ UNCHANGED result
  /\ UNCHANGED << head, images, originalRef, idx, stdout, infos >>
  /\ CompareFrame

\* buildBranch, lines 140-146: the forced checkout of the resolved hash.
CbCheckout ==
  /\ mode = "compare"
  /\ pc = "cb_checkout"
  /\ \E ok \in BOOLEAN :
       /\ calls' = Append(calls, Call("checkout", result.Hash, ok))
       /\ IF ok
            THEN /\ head' = Detached(result.Hash)
                 /\ pc' = "cb_commit"
                 /\ UNCHANGED compareRet
            ELSE /\ compareRet' = CompareError("failed to checkout")
                 /\ pc' = "returned"
                 /\ UNCHANGED head
  /\ UNCHANGED << images, originalRef, idx, result, stdout, infos >>
  /\ CompareFrame

\* buildBranch, lines 149-152: the commit object of the hash is read.
CbCommit ==
  /\ mode = "compare"
  /\ pc = "cb_commit"
  /\ \E ok \in BOOLEAN :
       /\ calls' = Append(calls, Call("commit", result.Hash, ok))
       /\ IF ok
            THEN /\ pc' = "cb_build"
                 /\ UNCHANGED compareRet
            ELSE /\ compareRet' = CompareError("failed to get commit")
                 /\ pc' = "returned"
  /\ UNCHANGED << head, images, originalRef, idx, result, stdout, infos >>
  /\ CompareFrame

\* CbBuild as it would be if a failed build put the working tree back
\* before the error is returned.
CbBuildRestoresOnFailure ==
  /\ mode = "compare"
  /\ pc = "cb_build"
  /\ \E ok \in (IF ctxDone THEN {FALSE} ELSE BOOLEAN) :
       IF ok
         THEN /\ calls' = Append(calls,
                                 Call("build", CompareImageName(result.Hash),
                                      TRUE))
              /\ images' = images \cup {CompareImageName(result.Hash)}
              /\ result' = [result EXCEPT
                              !.BuildTime = docker.timeOf[result.Hash[1]]]
              /\ pc' = "cb_inspect"
              /\ UNCHANGED << compareRet, head >>
         ELSE /\ calls' = calls \o
                   << Call("build", CompareImageName(result.Hash), FALSE),
                      Call("restore", Detached(originalRef.hash), TRUE) >>
              /\ head' = Detached(originalRef.hash)
              /\ compareRet' = CompareError("build failed")
              /\ pc' = "returned"
              /\ UNCHANGED << images, result >>
  /\ UNCHANGED << originalRef, idx, stdout, infos >>
  /\ CompareFrame

\* buildBranch, lines 155-163: BuildImage under the derived tag.  A
\* cancelled context makes the call fail.
CbBuild ==
  /\ mode = "compare"
  /\ pc = "cb_build"
  /\ \E ok \in (IF ctxDone THEN {FALSE} ELSE BOOLEAN) :
       /\ calls' = Append(calls, Call("build", CompareImageName(result.Hash), ok))
       /\ IF ok
            THEN /\ images' = images \cup {CompareImageName(result.Hash)}
                 /\ result' = [result EXCEPT
                                 !.BuildTime = docker.timeOf[result.Hash[1]]]
                 /\ pc' = "cb_inspect"
                 /\ UNCHANGED compareRet
            ELSE /\ compareRet' = CompareError("build failed")
                 /\ pc' = "returned"
                 /\ UNCHANGED << images, result >>
  /\ UNCHANGED << head, originalRef, idx, stdout, infos >>
  /\ CompareFrame

\* buildBranch, lines 166-170: GetImageInfo; a failure is kept until the
\* image has been removed.
CbInspect ==
  /\ mode = "compare"
  /\ pc = "cb_inspect"
  /\ \E ok \in (IF ctxDone THEN {FALSE} ELSE BOOLEAN), n \in LayerCounts :
       /\ calls' = Append(calls,
                          Call("inspect", CompareImageName(result.Hash), ok))
       /\ result' = IF ok
                      THEN [result EXCEPT
                              !.Size = docker.sizeOf[result.Hash[1]],
                              !.Layers = n]
                      ELSE [result EXCEPT !.Error = "failed to inspect image"]
  /\ pc' = "cb_remove"
  /\ UNCHANGED << head, images, originalRef, idx, stdout, infos, compareRet >>
  /\ CompareFrame

\* buildBranch, lines 168-181, with what Compare does on its return, lines
\* 85-96: RemoveImage, whose outcome is ignored; then the inspect error is
\* returned, or the BranchInfo is kept and the next branch is announced and
\* built, or, after branch B, the restoration is reached.
CbRemove ==
  /\ mode = "compare"
  /\ pc = "cb_remove"
  /\ \E ok \in (IF ctxDone THEN {FALSE} ELSE BOOLEAN) :
       /\ calls' = Append(calls,
                          Call("remove", CompareImageName(result.Hash), ok))
       /\ images' = IF ok THEN images \ {CompareImageName(result.Hash)}
                    ELSE images
  /\ IF result.Error # ""
       THEN /\ compareRet' = CompareError(result.Error)
            /\ pc' = "returned"
            /\ UNCHANGED << idx, result, stdout, infos >>
     ELSE /\ infos' = Append(infos, BranchInfoOf(result))
          /\ UNCHANGED compareRet
          /\ IF idx = 1
               THEN /\ idx' = 2
                    /\ result' = NewBranchBuild(branchArgs[2])
                    /\ stdout' = IF config.Verbose
                                   THEN Append(stdout,
                                               <<"Building branch",
                                                 branchArgs[2]>>)
                                   ELSE stdout
                    /\ pc' = "cb_resolve"
               ELSE /\ pc' = "cmp_restore"
                    /\ UNCHANGED << idx, result, stdout >>
  /\ UNCHANGED << head, originalRef >>
  /\ CompareFrame

\* Compare, lines 98-124: the forced checkout of the captured HEAD hash,
\* whose failure is only printed, and the result.
CompareRestore ==
  /\ mode = "compare"
  /\ pc = "cmp_restore"
  /\ \E ok \in BOOLEAN :
       /\ calls' = Append(calls,
                          Call("restore", Detached(originalRef.hash), ok))
       /\ head' = IF ok THEN Detached(originalRef.hash) ELSE head
       /\ stdout' = IF ok THEN stdout
                     ELSE Append(stdout, <<"Warning: failed to restore", 0>>)
  /\ compareRet' = CompareResultOf(infos[1], infos[2])
  /\ pc' = "returned"
  /\ UNCHANGED << images, originalRef, idx, result, infos >>
  /\ CompareFrame

\* The context handed to Compare is cancelled while it runs.
CompareCancel ==
  /\ mode = "compare"
  /\ Cancel

\* The names Compare is called with: two branches, a tag, and a name that
\* is neither.
CompareNames == {"main", "feature", "v1", "gone"}

\* Compare called on a repository with two branches and a tag, HEAD on main
\* or detached at its commit.
InitCompare ==
  /\ refs = [ heads |-> [ n \in {"main", "feature"} |->
                            IF n = "main" THEN HashOf(1) ELSE HashOf(2) ],
              tags |-> [ n \in {"v1"} |-> HashOf(3) ] ]
  /\ branchArgs \in CompareNames \X CompareNames
  /\ infos = << >>
  /\ compareRet = NoCompareRet
  /\ mode = "compare"
  /\ pc = "start"
  /\ config \in [ SkipFailed : {FALSE}, Verbose : BOOLEAN, Since : {0},
                  Until : {0}, MaxCommits : {0} ]
  /\ repo \in [ log : {LogOfLen(3)}, refOk : {TRUE}, logOk : {TRUE},
                worktreeOk : BOOLEAN, headOk : BOOLEAN ]
  /\ head \in Heads
  /\ headAtCall = head
  /\ images = {}
  /\ docker = [ sizeOf |-> <<100 * MiB, 200 * MiB, 100 * MiB>>,
                timeOf |-> <<4, 8, 2>>,
                histories |-> {} ]
  /\ ctxDone = FALSE
  /\ commits = << >>
  /\ idx = 0
  /\ originalRef = NoRef
  /\ results = << >>
  /\ result = NoResult
  /\ cur = NoCommit
  /\ runErr = "none"
  /\ stderr = << >>
  /\ calls = << >>
  /\ BisectIdle
  /\ ReportIdle
  /\ TwinIdle
  /\ RegistryIdle

NextCompare ==
  \/ CompareStart
  \/ CbResolve
  \/ CbCheckout
  \/ CbCommit
  \/ CbBuild
  \/ CbInspect
  \/ CbRemove
  \/ CompareRestore
  \/ CompareCancel

SpecCompare == InitCompare /\ [][NextCompare]_vars

\* ------------------------------------------------------ reading the trace
\* The call is about commit c: a checkout of its hash, or a build, inspect,
\* history or remove of the tag derived from it.
AboutCommit(call, c) ==
  \/ call.op = "checkout" /\ call.arg = c.Hash
  \/ call.op \in {"build", "inspect", "history", "remove"}
       /\ call.arg = ImageName(c)

\* The Build Step of commit c failed at checkout, build or inspect.
StepFailed(c) ==
  \/ ~repo.worktreeOk
  \/ \E k \in 1..Len(calls) :
       /\ calls[k].op \in {"checkout", "build", "inspect"}
       /\ ~calls[k].ok
       /\ AboutCommit(calls[k], c)

RestoreAttempted == \E k \in 1..Len(calls) : calls[k].op = "restore"

RestoreFailed ==
  \E k \in 1..Len(calls) : calls[k].op = "restore" /\ ~calls[k].ok

OkCheckouts == { k \in 1..Len(calls) : calls[k].op = "checkout" /\ calls[k].ok }

\* The working tree as the last successful checkout of a commit left it.
TreeAfterLoop ==
  IF OkCheckouts = {} THEN headAtCall
  ELSE Detached(calls[CHOOSE k \in OkCheckouts :
                        \A m \in OkCheckouts : m <= k].arg)

\* ----------------------------------------------------------------- claims

\* C1 (as stated): whatever Build Steps fail, when Run returns the working
\* tree's resolved state equals the state it had when Run was called.  Even
\* the commit HEAD resolves to can differ.
C1_TreeEqualsPreRunState ==
  pc = "returned" => head.hash = headAtCall.hash

\* C1 (amended): when Run returns, the working tree's resolved state equals
\* its state at the call unless the restoring checkout itself failed; in
\* that case the tree is where the last successful commit checkout left it.
C1_TreeRestoredUnlessRestoreFails ==
  pc = "returned" =>
    IF RestoreFailed THEN head = TreeAfterLoop ELSE head = headAtCall

C1_Witness ==
  /\ pc = "returned"
  /\ runErr = "nil"
  /\ ~RestoreFailed
  /\ OkCheckouts # {}
  /\ \E i \in 1..Len(commits) : StepFailed(commits[i])
  /\ headAtCall.kind = "branch"
  /\ head = headAtCall

\* C2: a failure at checkout, build or inspect never ends the loop: once the
\* loop is left there is one result per selected point, in input order,
\* whose error is set exactly when that point's Build Step failed.
C2_EveryPointRecorded ==
  (pc \in {"diff", "restore"} \/ runErr = "nil") =>
    /\ Len(results) = Len(commits)
    /\ \A i \in 1..Len(commits) :
         /\ results[i].CommitHash = commits[i].Hash
         /\ (results[i].Error # "") <=> StepFailed(commits[i])

C2_Witness ==
  /\ runErr = "nil"
  /\ Len(commits) = 2
  /\ Len(results) = 2
  /\ results[1].Error # ""
  /\ results[2].Error = ""

\* C3: after the delta pass every successful result i has SizeDiff equal to
\* its size minus the size of the nearest later successful result, or 0 if
\* there is none; a failed result is never compared with and keeps 0.
C3_DeltaAgainstNextSuccessful ==
  pc \in {"restore", "returned"} /\ runErr \in {"none", "nil"} =>
    \A i \in 1..Len(results) :
      LET later == { j \in (i + 1)..Len(results) : results[j].Error = "" }
      IN IF results[i].Error # "" \/ later = {}
           THEN results[i].SizeDiff = 0
           ELSE \E j \in later :
                  /\ \A k \in later : j <= k
                  /\ results[i].SizeDiff =
                       results[i].ImageSize - results[j].ImageSize

\* Scenario A: [100 ok, failed, 80 ok] gives deltas +20, 0, 0.
C3_Witness ==
  /\ pc = "restore"
  /\ Len(results) = 3
  /\ results[1].Error = "" /\ results[1].ImageSize = 100
  /\ results[2].Error # ""
  /\ results[3].Error = "" /\ results[3].ImageSize = 80
  /\ results[1].SizeDiff = 20
  /\ results[2].SizeDiff = 0
  /\ results[3].SizeDiff = 0

\* Number of probes FindRegression has started.
Probes ==
  Cardinality({ k \in 1..Len(stdout) : stdout[k][1] = "Testing commit" })

NoProbeFailed ==
  /\ repo.worktreeOk
  /\ \A k \in 1..Len(calls) :
       calls[k].op \in {"checkout", "build", "inspect"} => calls[k].ok

\* The image built from the commit at index i of the range (0-based) is
\* over the configured threshold.
OverThreshold(i) ==
  LET c == commits[i + 1].Hash[1]
  IN \/ bconfig.SizeThreshold > 0
        /\ docker.sizeOf[c] > bconfig.SizeThreshold * MiB
     \/ bconfig.TimeThreshold > 0
        /\ docker.timeOf[c] > bconfig.TimeThreshold

RECURSIVE FloorLog2(_)
FloorLog2(n) == IF n <= 1 THEN 0 ELSE 1 + FloorLog2(n \div 2)

C5_FailedProbeIsInconclusive ==
  /\ [][ mode = "bisect" /\ pc = "ac_return" /\ pc' # pc
            /\ result.Error # "" =>
          /\ left' = mid + 1
          /\ right' = right
          /\ badCommit' = badCommit
          /\ badResult' = badResult
          /\ pc' = "bisect_loop" ]_vars
  /\ [](pc = "returned" /\ bisectRet.status = "found" =>
          /\ \E i \in 1..Len(commits) : commits[i].Hash = bisectRet.CommitHash
          /\ ~StepFailed(CommitOf(bisectRet.CommitHash[1])))

C5_Witness ==
  /\ pc = "returned"
  /\ bisectRet.status = "found"
  /\ \E k \in 1..Len(stdout) : stdout[k][1] = "Build failed, skipping"
  /\ ~StepFailed(CommitOf(bisectRet.CommitHash[1]))

\* C6: when a Build Step fails at checkout, build or inspect, the result it
\* returns has its error set, every numeric field zero and no layers.
C6_FailedResultKeepsNothing ==
  pc = "ac_return" /\ StepFailed(cur) =>
    /\ result.Error # ""
    /\ result.ImageSize = 0
    /\ result.BuildTime = 0
    /\ result.LayerCount = 0
    /\ result.SizeDiff = 0
    /\ result.Layers = << >>

\* C7: once a build was attempted for a point, a removal of that point's tag
\* has been requested by the time the Build Step returns.
C7_RemovalAfterEveryBuildAttempt ==
  pc = "ac_return" =>
    \A k \in 1..Len(calls) :
      calls[k].op = "build" /\ calls[k].arg = ImageName(cur) =>
        \E m \in (k + 1)..Len(calls) :
          calls[m].op = "remove" /\ calls[m].arg = ImageName(cur)

\* C8: if a Build Step panics in the middle of Run's loop, the checkout that
\* restores the captured reference is still attempted before control leaves
\* Run.
C8_RestoreAttemptedAfterPanic ==
  pc = "panicked" /\ mode = "run" => RestoreAttempted

\* C9: if the context is cancelled at any moment of a Run that captured the
\* pre-run reference, the restoring checkout is attempted, after the
\* cancellation or before it, by the time Run returns.
C9_RestoreAttemptedAfterCancel ==
  pc = "returned" /\ originalRef # NoRef /\ ctxDone => RestoreAttempted

C9_Witness ==
  /\ pc = "returned"
  /\ \E k \in 1..Len(calls), m \in 1..Len(calls) :
       /\ calls[k].op = "cancel"
       /\ calls[m].op = "restore"
       /\ 1 < k
       /\ k < m
  /\ \E i \in 1..Len(results) : results[i].Error = "build failed"

\* C10: a failing restoration is only a warning: the restoring step leaves
\* the results and their deltas untouched whether it succeeds or fails, Run
\* returns nil, and the failure is written to stderr.
C10_RestoreFailureIsOnlyAWarning ==
  [][ pc = "restore" /\ pc' = "returned" =>
        /\ runErr' = "nil"
        /\ results' = results
        /\ stderr' = IF calls'[Len(calls')].ok THEN stderr
                      ELSE Append(stderr, "Warning: failed to restore") ]_vars

C10_Witness ==
  /\ pc = "returned"
  /\ RestoreFailed
  /\ runErr = "nil"
  /\ "Warning: failed to restore" = stderr[Len(stderr)]
  /\ \E i \in 1..Len(results) : results[i].SizeDiff # 0

\* ---------------------------------------------------------------- C11
\* One of Run's fatal failures is present: the reference does not resolve,
\* the history cannot be enumerated, or the pre-run working-tree state
\* (Worktree(), Head()) cannot be read.
FatalFailure ==
  ~repo.refOk \/ ~repo.logOk \/ ~repo.worktreeOk \/ ~repo.headOk

\* No checkout (of a commit or restoring) and no build has been issued.
NoStepIssued ==
  \A k \in 1..Len(calls) : calls[k].op \notin {"checkout", "build", "restore"}

\* C11: when reference resolution, history enumeration or reading the
\* pre-run working-tree state fails, Run's entry step returns an error and
\* leaves the result sequence as it was, and no checkout or build is ever
\* issued in that run.
C11_FatalErrorAbortsBeforeAnyBuildStep ==
  /\ [][ (pc = "start" /\ pc' # "start" /\ mode = "run" /\ FatalFailure)
           => /\ pc' = "returned"
              /\ runErr' \notin {"none", "nil"}
              /\ results' = results ]_vars
  /\ []( (mode = "run" /\ FatalFailure) => (NoStepIssued /\ results = << >>) )

\* Run has returned the error of a failed read of HEAD.
C11_Witness ==
  /\ pc = "returned"
  /\ repo.refOk /\ repo.logOk /\ repo.worktreeOk /\ ~repo.headOk
  /\ runErr = "failed to get HEAD"
  /\ results = << >>
  /\ NoStepIssued

\* ---------------------------------------------------------------- C12
\* The selection step of Run has been taken.
Selected == pc # "start"

\* The ancestry listing yields some commit more than once.
ListingRevisits ==
  \E i, j \in 1..Len(repo.log) : i # j /\ repo.log[i].Hash = repo.log[j].Hash

\* C12: for every listing (also one that yields a commit more than once),
\* every pair of date bounds and every given maxCount (MaxCommits > 0; 0 is
\* how the code receives an omitted limit), the selected sequence has at
\* most maxCount commits and no two of them have the same hash.
C12_SelectionCappedAndDuplicateFree ==
  Selected =>
    /\ config.MaxCommits > 0 => Len(commits) <= config.MaxCommits
    /\ \A i, j \in 1..Len(commits) :
         i # j => commits[i].Hash # commits[j].Hash

\* A listing that revisits a commit was selected from, under a cap, and the
\* cap was reached.
C12_Witness ==
  /\ Selected
  /\ ListingRevisits
  /\ config.MaxCommits = 2
  /\ Len(commits) = 2
  /\ Len(Dedup(repo.log, {})) < Len(repo.log)

\* ---------------------------------------------------------------- C13
\* C13: with no cap in force, a commit of the listing is selected if and
\* only if sinceDate <= t < untilDate for its author time t, an omitted
\* bound testing nothing (so t = untilDate is dropped).
C13_DateBoundsInclusiveExclusive ==
  (Selected /\ config.MaxCommits = 0) =>
    \A k \in 1..Len(repo.log) :
      LET c == repo.log[k]
      IN (\E i \in 1..Len(commits) : commits[i] = c)
           <=> /\ (config.Since = 0 \/ config.Since <= c.When)
               /\ (config.Until = 0 \/ c.When < config.Until)

\* ---------------------------------------------------------------- C14
\* C14: the selected sequence is exactly the first maxCount commits, in
\* listing order, of the de-duplicated commits the date test keeps (all of
\* them when no maxCount is given); commits the date test rejects use up
\* none of the cap.
C14_CapAppliedAfterDateFilter ==
  Selected =>
    commits = FirstN(FilterDates(Dedup(repo.log, {}), config.Since,
                                 config.Until), config.MaxCommits)

\* A commit rejected by the dates precedes the selected ones in the listing
\* and the cap is still filled by commits that follow it.
C14_Witness ==
  /\ Selected
  /\ config.MaxCommits = 2
  /\ Len(commits) = 2
  /\ Len(repo.log) >= 3
  /\ ~KeptByDates(repo.log[1], config.Since, config.Until)
  /\ commits[1] = repo.log[2]

\* ------------------------------------------------------ reading the table
\* GenerateReport has returned and has built the layer comparison table.
TableBuilt == pc = "reported" /\ Len(ValidResults(results)) > 0

HasCommand(r, cmd) == \E l \in 1..Len(r.Layers) : r.Layers[l].CreatedBy = cmd

\* The sizes (MB) of the layers of r whose identity is cmd.
SizesOf(r, cmd) ==
  { SizeMB(r.Layers[l]) : l \in { m \in 1..Len(r.Layers) :
                                    r.Layers[m].CreatedBy = cmd } }

RECURSIVE SumSizes(_, _)
SumSizes(layers, cmd) ==
  IF layers = << >> THEN 0
  ELSE (IF Head(layers).CreatedBy = cmd THEN SizeMB(Head(layers)) ELSE 0)
         + SumSizes(Tail(layers), cmd)

\* No other valid result has the 8-digit hash prefix of valid[i].
UniqueShort(valid, i) ==
  \A j \in 1..Len(valid) :
    j # i => Short8(valid[j].CommitHash) # Short8(valid[i].CommitHash)

\* The identities of all layers of all results, in result and layer order.
RECURSIVE FlatCommands(_)
FlatCommands(rs) ==
  IF rs = << >> THEN << >>
  ELSE [l \in 1..Len(Head(rs).Layers) |-> Head(rs).Layers[l].CreatedBy]
         \o FlatCommands(Tail(rs))

FirstPos(s, x) ==
  CHOOSE k \in 1..Len(s) : s[k] = x /\ \A j \in 1..(k - 1) : s[j] # x

\* ---------------------------------------------------------------- C15
\* C15: in every row of the table, the cell of a result that has layers
\* with the row's identity is the sum of the sizes of all those layers
\* (stated for results whose column key no other result shares).
C15_DuplicateInstructionSizesSummed ==
  TableBuilt =>
    LET valid == ValidResults(results)
    IN \A k \in 1..Len(comparisons) : \A i \in 1..Len(valid) :
         (HasCommand(valid[i], comparisons[k].LayerCommand)
            /\ UniqueShort(valid, i))
         => comparisons[k].SizeByCommit[Short8(valid[i].CommitHash)]
              = SumSizes(valid[i].Layers, comparisons[k].LayerCommand)

\* ---------------------------------------------------------------- C16
\* C16: every identity present in some valid result has a row, and every
\* such row has one cell per valid result: a size of a layer of that result
\* with exactly that identity where it has one, -1 where it has none; no
\* result is left without a column of its own.
C16_EveryRowHasACellForEveryResult ==
  TableBuilt =>
    LET valid == ValidResults(results)
        flat == FlatCommands(valid)
    IN /\ \A p \in 1..Len(flat) :
            \E k \in 1..Len(comparisons) :
              comparisons[k].LayerCommand = flat[p]
       /\ \A k \in 1..Len(comparisons) :
            LET row == comparisons[k]
            IN /\ Cardinality(DOMAIN row.SizeByCommit) = Len(valid)
               /\ \A i \in 1..Len(valid) :
                    /\ Short8(valid[i].CommitHash) \in DOMAIN row.SizeByCommit
                    /\ LET cell == row.SizeByCommit[Short8(valid[i].CommitHash)]
                       IN IF HasCommand(valid[i], row.LayerCommand)
                            THEN cell \in SizesOf(valid[i], row.LayerCommand)
                            ELSE cell = -1

\* ---------------------------------------------------------------- C17
\* C17: the rows are the identities in order of first appearance when the
\* valid results are scanned in sequence and each one's layers in layer
\* order (so the first result's identities come first, in layer order);
\* every identity has exactly one row.
C17_RowsInOrderOfFirstAppearance ==
  TableBuilt =>
    LET flat == FlatCommands(ValidResults(results))
    IN /\ \A a \in 1..Len(layerCommands) : InSeq(layerCommands[a], flat)
       /\ \A p \in 1..Len(flat) : InSeq(flat[p], layerCommands)
       /\ \A a, b \in 1..Len(layerCommands) :
            a < b => FirstPos(flat, layerCommands[a])
                       < FirstPos(flat, layerCommands[b])
       /\ Len(comparisons) = Len(layerCommands)
       /\ \A k \in 1..Len(comparisons) :
            comparisons[k].LayerCommand = layerCommands[k]

\* The first valid result lists COPY before RUN, a later one brings nothing
\* new, and the rows are COPY, RUN.
C17_Witness ==
  /\ TableBuilt
  /\ Len(ValidResults(results)) >= 2
  /\ layerCommands = << <<"COPY . /app">>, <<"RUN apt-get install x">> >>
  /\ Len(ValidResults(results)[1].Layers) = 2
  /\ HasCommand(ValidResults(results)[2], <<"RUN apt-get install x">>)

\* ---------------------------------------------------------------- C18
\* The table report has been generated: the two summary facts are computed.
FactsComputed == pc = "reported" /\ format = "table"

\* Indices of the successful results with a strictly positive delta.
Increases ==
  { i \in 1..Len(results) : results[i].Error = "" /\ results[i].SizeDiff > 0 }

\* Indices of the successful results with a strictly negative delta.
Decreases ==
  { i \in 1..Len(results) : results[i].Error = "" /\ results[i].SizeDiff < 0 }

\* C18: after the delta pass the bloat fact is the successful result with
\* the largest strictly positive sizeDiff, the optimization fact the
\* successful result with the most negative sizeDiff, in both cases the
\* first in sequence order among those that tie; there is no fact where no
\* such result exists, and a failed result is never chosen.
C18_BloatAndOptimizationAreFirstExtremes ==
  FactsComputed =>
    /\ IF Increases = {} THEN bloat = 0
       ELSE /\ bloat \in Increases
            /\ \A j \in Increases :
                 /\ results[j].SizeDiff <= results[bloat].SizeDiff
                 /\ results[j].SizeDiff = results[bloat].SizeDiff => bloat <= j
    /\ IF Decreases = {} THEN optimization = 0
       ELSE /\ optimization \in Decreases
            /\ \A j \in Decreases :
                 /\ results[j].SizeDiff >= results[optimization].SizeDiff
                 /\ results[j].SizeDiff = results[optimization].SizeDiff
                      => optimization <= j

\* Two results tie for the largest increase and the earlier one is the
\* bloat fact.
C18_Witness ==
  /\ FactsComputed
  /\ bloat # 0
  /\ \E j \in Increases :
       j > bloat /\ results[j].SizeDiff = results[bloat].SizeDiff

\* ---------------------------------------------------------------- C19
\* C19: with fewer than two successful results (none included) Run returns
\* nil with every sizeDiff zero, and the report's fact computation returns
\* normally with neither a bloat nor an optimization fact.
C19_NoFactsBelowTwoSuccessfulResults ==
  (mode = "run" /\ format = "table" /\ Len(ValidResults(results)) < 2) =>
    /\ pc = "reported"
    /\ runErr = "nil"
    /\ \A i \in 1..Len(results) : results[i].SizeDiff = 0
    /\ bloat = 0
    /\ optimization = 0

\* Every Build Step of a run over at least two commits failed and the table
\* report was generated.
C19_Witness ==
  /\ FactsComputed
  /\ Len(results) >= 2
  /\ \A i \in 1..Len(results) : results[i].Error # ""
  /\ bloat = 0
  /\ optimization = 0

\* ---------------------------------------------------------------- C20
\* The measured value of a successful probe is strictly greater than the
\* configured threshold.
StrictlyOver(r) ==
  \/ bconfig.SizeThreshold > 0 /\ r.ImageSize > bconfig.SizeThreshold * MiB
  \/ bconfig.TimeThreshold > 0 /\ r.BuildTime > bconfig.TimeThreshold

\* C20: every probe is at mid = (low + high) / 2; a successful probe whose
\* value is strictly greater than the threshold records the probed commit
\* as the bad candidate and sets high = mid - 1, low unchanged; a
\* successful probe whose value is at most the threshold sets low = mid + 1
\* and changes neither high nor the candidate.
C20_ProbeTransitions ==
  /\ [][ (mode = "bisect" /\ pc = "bisect_loop" /\ pc' = "ac_checkout")
           => /\ mid' = (left + right) \div 2
              /\ cur' = commits[mid' + 1] ]_vars
  /\ [][ (mode = "bisect" /\ pc = "ac_return" /\ pc' = "bisect_loop"
            /\ result.Error = "")
           => IF StrictlyOver(result)
                THEN /\ badCommit' = commits[mid + 1]
                     /\ badResult' = result
                     /\ right' = mid - 1
                     /\ left' = left
                ELSE /\ left' = mid + 1
                     /\ right' = right
                     /\ badCommit' = badCommit
                     /\ badResult' = badResult ]_vars

\* A probe measuring exactly the threshold has just moved low past mid,
\* after an earlier probe had recorded a bad candidate.
C20_Witness ==
  /\ mode = "bisect"
  /\ pc = "bisect_loop"
  /\ result.Error = ""
  /\ bconfig.SizeThreshold > 0
  /\ result.ImageSize = bconfig.SizeThreshold * MiB
  /\ left = mid + 1
  /\ badCommit # NoCommit
  /\ badCommit # cur

\* ------------------------------------------------- the search of the range
\* FindRegression has entered its loop: the range has been resolved.
SearchStarted == mode = "bisect" /\ commits # << >>

\* analyzeCommit is running, or has just returned, for commits[mid].
ProbeInProgress ==
  pc \in {"ac_checkout", "ac_build", "ac_inspect", "ac_history", "ac_remove",
          "ac_return"}

\* C21: in every reachable state of FindRegression's search over a range
\* of N points, 0 <= low, high <= N - 1 and low <= high + 1; and while an
\* index mid is probed, low <= mid <= high.
C21_SearchBoundsHold ==
  SearchStarted =>
    /\ 0 <= left
    /\ right <= Len(commits) - 1
    /\ left <= right + 1
    /\ ProbeInProgress => (left <= mid /\ mid <= right)

\* A search over the longest range has ended with low just past the last
\* index, high on it, after several probes.
C21_Witness ==
  /\ SearchStarted
  /\ pc = "returned"
  /\ Len(commits) = MaxRange
  /\ left = right + 1
  /\ left = Len(commits)
  /\ Probes >= 2

\* ---------------------------------------------------------------- C22
\* Positions in stdout of the probes reported as over a threshold.
BadProbes ==
  { k \in 1..(Len(stdout) - 1) :
      /\ stdout[k][1] = "Testing commit"
      /\ stdout[k + 1][1] \in {"Size exceeds threshold",
                               "Build time exceeds threshold"} }

\* The greatest element of a non-empty set of numbers.
MaxOf(S) == CHOOSE x \in S : \A y \in S : y <= x

\* FindRegression has ended: it returned, or a panic unwound it.
SearchEnded == pc \in {"returned", "panicked"}

\* C22: FindRegression's search terminates for every range and every
\* pattern of probe outcomes: each probe strictly shrinks [low, high], the
\* loop is left exactly when low > high, and the outcome is then the last
\* recorded bad candidate if there is one and "no regression found"
\* otherwise.
C22_SearchTerminates ==
  /\ [][ (mode = "bisect" /\ pc = "ac_return" /\ pc' = "bisect_loop")
           => (right' - left' < right - left) ]_vars
  /\ [][ (mode = "bisect" /\ pc = "bisect_loop" /\ pc' # pc)
           => ((pc' = "returned") <=> (left > right)) ]_vars
  /\ [] ( (SearchStarted /\ pc = "returned") =>
            IF BadProbes = {}
              THEN bisectRet =
                     BisectError("no regression found in the commit range")
              ELSE /\ bisectRet.status = "found"
                   /\ bisectRet.CommitHash = stdout[MaxOf(BadProbes)][2] )
  /\ <> SearchEnded

\* A search over the longest range has returned a candidate that was not
\* the first one recorded.
C22_Witness ==
  /\ SearchStarted
  /\ pc = "returned"
  /\ Len(commits) = MaxShortRange
  /\ Cardinality(BadProbes) >= 2
  /\ bisectRet.status = "found"
  /\ \E k \in BadProbes : stdout[k][2] # bisectRet.CommitHash

\* ---------------------------------------------------------------- C23
\* The collaborator calls issued so far, without the caller's cancellation.
Issued == SelectSeq(calls, LAMBDA c : c.op # "cancel")

\* The tag analyzeCommit derives from the hash a checkout was given.
TagOfHash(hash) == <<"dtm", hash[1]>>

\* Call p is the last one a Build Step issues: the removal request, or the
\* failed checkout or failed build after which analyzeCommit returns.
EndsStep(p) ==
  \/ p.op = "remove"
  \/ p.op \in {"checkout", "build"} /\ ~p.ok

\* Call c may directly follow call p in one goroutine running Build Steps
\* one after the other.
FollowsInOrder(p, c) ==
  CASE c.op = "checkout" -> EndsStep(p)
    [] c.op = "restore"  -> EndsStep(p)
    [] c.op = "build"    -> p.op = "checkout" /\ p.ok /\ c.arg = TagOfHash(p.arg)
    [] c.op = "inspect"  -> p.op = "build" /\ p.ok /\ c.arg = p.arg
    [] c.op = "history"  -> p.op = "inspect" /\ p.ok /\ c.arg = p.arg
    [] c.op = "remove"   -> /\ c.arg = p.arg
                            /\ \/ p.op = "history"
                               \/ p.op = "inspect" /\ ~p.ok
    [] OTHER             -> FALSE

\* C23: Build Step invocations never overlap, in Run and in FindRegression:
\* a checkout is issued only when the step of the previous point has issued
\* its last call, every other call belongs to the step of the point checked
\* out last, and while a step is past its checkout the working tree is at
\* that step's point and no other.
C23_BuildStepsNeverOverlap ==
  /\ \A k \in 2..Len(Issued) : FollowsInOrder(Issued[k - 1], Issued[k])
  /\ Issued # << >> => Issued[1].op \in {"checkout", "restore"}
  /\ pc \in {"ac_build", "ac_inspect", "ac_history", "ac_remove"}
       => head = Detached(cur.Hash)

\* A second point's checkout has been issued after the first point's step
\* ended with its removal request, during a search.
C23_Witness ==
  /\ pc = "ac_build"
  /\ mode = "bisect"
  /\ Len(Issued) >= 5
  /\ Issued[Len(Issued) - 1].op = "remove"
  /\ Issued[Len(Issued) - 1].arg # ImageName(cur)

\* ---------------------------------------------------------------- C24
\* Positions in the trace of the build calls made for commit c.
BuildsOf(c) ==
  { k \in 1..Len(calls) :
      calls[k].op = "build" /\ calls[k].arg = ImageName(c) }

\* Positions in stdout of the probes of commit c.
ProbesOf(c) ==
  { k \in 1..Len(stdout) :
      stdout[k][1] = "Testing commit" /\ stdout[k][2] = c.Hash }

\* C24: a failed build is never retried: within one Run the build
\* collaborator is invoked at most once for each selected point, and within
\* one FindRegression each index of the range is probed, and built, at
\* most once.
C24_NoPointBuiltTwice ==
  \A i \in 1..Len(commits) :
    /\ Cardinality(BuildsOf(commits[i])) <= 1
    /\ mode = "bisect" => Cardinality(ProbesOf(commits[i])) <= 1

\* Run has returned after a build that failed and a later one that
\* succeeded.
C24_Witness ==
  /\ mode = "run"
  /\ pc = "returned"
  /\ Len(commits) >= 2
  /\ \E k \in BuildsOf(commits[1]) : ~calls[k].ok
  /\ \E k \in BuildsOf(commits[2]) : calls[k].ok

\* ---------------------------------------------------------------- C25
\* Result r2 is result r1 with at most the SizeDiff field rewritten.
SameButSizeDiff(r1, r2) == r2 = [r1 EXCEPT !.SizeDiff = r2.SizeDiff]

\* C25: the size-delta pass starts only after the Build Step of the last
\* selected point has returned and its result is recorded; a recorded
\* result is changed by nothing except the delta pass writing SizeDiff; and
\* building the layer comparison table changes no field of any result.
C25_ResultsFrame ==
  /\ [] (mode = "run" /\ pc = "diff" => Len(results) = Len(commits))
  /\ [][ /\ Len(results') >= Len(results)
         /\ \A i \in 1..Len(results) :
              \/ results'[i] = results[i]
              \/ pc = "diff" /\ SameButSizeDiff(results[i], results'[i]) ]_vars
  /\ [][ (comparisons' # comparisons \/ layerCommands' # layerCommands)
           => results' = results ]_vars

\* The table has been built over results one of which carries the delta
\* the pass wrote.
C25_Witness ==
  /\ pc = "reported"
  /\ comparisons # << >>
  /\ Len(results) = Len(commits)
  /\ \E i \in 1..Len(results) : results[i].SizeDiff # 0

\* ---------------------------------------------------------------- C26
\* C26: skipFailed changes only reporting verbosity: of two Runs over the
\* same selection with the same collaborator outcomes, one with skipFailed
\* set and one without, the second issues call for call what the first
\* issued and ends with the same result sequence, size deltas included, the
\* same return value and the same working-tree state.
C26_SkipFailedOnlyChangesVerbosity ==
  twin # NoTwin =>
    /\ Len(calls) <= Len(twin.calls)
    /\ \A k \in 1..Len(calls) : calls[k] = twin.calls[k]
    /\ pc = "returned" =>
         /\ calls = twin.calls
         /\ results = twin.results
         /\ runErr = twin.runErr
         /\ head = twin.head

\* Both Runs have returned after a failed point and a measured one, and the
\* one without skipFailed wrote a warning the other did not.
C26_Witness ==
  /\ twin # NoTwin
  /\ pc = "returned"
  /\ stderr # twin.stderr
  /\ \E i \in 1..Len(results) : results[i].Error # ""
  /\ \E i \in 1..Len(results) : results[i].Error = ""

\* ---------------------------------------------------------------- C27
\* The history query for the image of commit c was issued and failed.
HistoryFailed(c) ==
  \E k \in 1..Len(calls) :
    /\ calls[k].op = "history"
    /\ calls[k].arg = ImageName(c)
    /\ ~calls[k].ok

\* A checkout of commit c was issued.
CheckoutIssued(c) ==
  \E k \in 1..Len(calls) : calls[k].op = "checkout" /\ calls[k].arg = c.Hash

\* C27: if the layer-history query fails for a point whose build and
\* inspect succeeded, the Build Step still returns a result without error
\* that carries the measured total size and layer count and an empty layer
\* list, and the run goes on to the next point.
C27_HistoryFailureIsNotAnError ==
  mode = "run" =>
    \A i \in 1..Len(results) :
      HistoryFailed(commits[i]) =>
        /\ results[i].Error = ""
        /\ results[i].ImageSize = docker.sizeOf[commits[i].Hash[1]]
        /\ results[i].LayerCount \in LayerCounts
        /\ results[i].Layers = << >>
        /\ (i < Len(commits) /\ pc \in {"diff", "restore", "returned"})
             => CheckoutIssued(commits[i + 1])

\* Run has returned after the history query failed for the first point and
\* the second point was measured with its layers.
C27_Witness ==
  /\ mode = "run"
  /\ pc = "returned"
  /\ Len(results) = 2
  /\ HistoryFailed(commits[1])
  /\ results[2].Error = ""
  /\ results[2].Layers # << >>
  /\ results[1].SizeDiff # 0

\* ---------------------------------------------------------------- C28
\* The hashes of the commits of the listing that the date test keeps.
KeptHashes ==
  { repo.log[k].Hash : k \in { n \in 1..Len(repo.log) :
      KeptByDates(repo.log[n], config.Since, config.Until) } }

\* C28: with max-commits 0 the selector applies no cap: every commit of the
\* listing that passes the date test is retained, once.
C28_ZeroMeansNoCap ==
  (Selected /\ config.MaxCommits = 0) =>
    /\ \A h \in KeptHashes : \E i \in 1..Len(commits) : commits[i].Hash = h
    /\ Len(commits) = Cardinality(KeptHashes)

\* With max-commits 0, more commits were retained than any cap tried
\* admits.
C28_Witness ==
  /\ Selected
  /\ config.MaxCommits = 0
  /\ Len(commits) = MaxLog
  /\ \A m \in { c.MaxCommits : c \in SelectConfigs } : Len(commits) > m

\* ---------------------------------------------------------------- C29
\* runRegistry has sorted, computed the deltas and reported.
RegistryReported == mode = "registry" /\ pc = "returned" /\ regErr = "nil"

\* C29: in registry mode the reported sequence holds one result per tag,
\* the successful ones first and newest first, the failed ones after them;
\* and each successful result that has a successful one after it carries
\* its size minus the size of the next successful one in that order.
C29_RegistrySortedThenDiffed ==
  RegistryReported =>
    /\ Len(regResults) = Len(tags)
    /\ \A t \in 1..Len(tags) : \E i \in 1..Len(regResults) :
         regResults[i].Tag = tags[t]
    /\ \A i, j \in 1..Len(regResults) :
         i < j =>
           /\ regResults[i].Error # "" => regResults[j].Error # ""
           /\ (regResults[i].Error = "" /\ regResults[j].Error = "")
                => regResults[i].Created >= regResults[j].Created
    /\ \A i \in 1..Len(regResults) :
         LET j == NextOk(regResults, i + 1)
         IN (regResults[i].Error = "" /\ j # 0) =>
              regResults[i].SizeDiff = regResults[i].Size - regResults[j].Size

\* The tag fetched last is reported first with a delta, and the tag fetched
\* first, whose fetch failed, is reported last.
C29_Witness ==
  /\ RegistryReported
  /\ Len(regResults) = MaxTags
  /\ regResults[1].Tag = tags[MaxTags]
  /\ regResults[MaxTags].Error # ""
  /\ regResults[MaxTags].Tag = tags[1]
  /\ regResults[1].SizeDiff # 0

\* ---------------------------------------------------------------- C30
\* The checkout of commit c was issued and failed.
CheckoutFailed(c) ==
  \E k \in 1..Len(calls) :
    calls[k].op = "checkout" /\ calls[k].arg = c.Hash /\ ~calls[k].ok

\* Some build, inspect, history or remove call names the tag of commit c.
ImageCallIssued(c) ==
  \E k \in 1..Len(calls) :
    /\ calls[k].op \in {"build", "inspect", "history", "remove"}
    /\ calls[k].arg = ImageName(c)

\* C30: artifacts are attributed to the right point under partial failure:
\* whenever the build collaborator is invoked with the tag derived from
\* point p the working tree is checked out at p; and if the checkout of p
\* fails, no build, inspect or remove is issued for p and p's result is
\* marked failed.
C30_BuiltTreeIsThePointsTree ==
  /\ [][ (Len(calls') = Len(calls) + 1 /\ calls'[Len(calls')].op = "build")
           => \A i \in 1..Len(commits) :
                calls'[Len(calls')].arg = ImageName(commits[i])
                  => head = Detached(commits[i].Hash) /\ head' = head ]_vars
  /\ [] ( \A i \in 1..Len(commits) :
            CheckoutFailed(commits[i]) =>
              /\ ~ImageCallIssued(commits[i])
              /\ (mode = "run" /\ i <= Len(results))
                   => /\ results[i].Error # ""
                      /\ results[i].ImageSize = 0 )

\* Run has returned after the first point was measured and the checkout of
\* the second failed with the tree still at the first.
C30_Witness ==
  /\ mode = "run"
  /\ pc = "returned"
  /\ Len(results) = 2
  /\ results[1].Error = ""
  /\ CheckoutFailed(commits[2])
  /\ results[2].Error = "failed to checkout commit"
  /\ TreeAfterLoop = Detached(commits[1].Hash)

\* ---------------------------------------------------------------- C31
\* The commit at position i of the range (1-based) was probed, its Build
\* Step succeeded and its measured value is over the threshold.
ProbedBad(i) ==
  /\ ProbesOf(commits[i]) # {}
  /\ ~StepFailed(commits[i])
  /\ OverThreshold(i - 1)

\* C31: FindRegression only ever reports a point that it probed, whose
\* build succeeded and whose measured value exceeded the threshold; of all
\* such probed points it reports the one with the lowest index, with the
\* size and build time measured at that probe.
C31_ReportsLowestBadProbe ==
  (mode = "bisect" /\ pc = "returned" /\ bisectRet.status = "found") =>
    \E i \in 1..Len(commits) :
      /\ commits[i].Hash = bisectRet.CommitHash
      /\ ProbedBad(i)
      /\ \A j \in 1..Len(commits) : ProbedBad(j) => i <= j
      /\ bisectRet.SizeMB = docker.sizeOf[commits[i].Hash[1]] \div MiB
      /\ bisectRet.BuildTime = docker.timeOf[commits[i].Hash[1]]

\* A probed point over the threshold is reported after the last probe was
\* of another point, built and measured within the threshold.
C31_Witness ==
  /\ mode = "bisect"
  /\ pc = "returned"
  /\ bisectRet.status = "found"
  /\ \E j \in 1..Len(commits) : ProbedBad(j)
  /\ stdout[Len(stdout)][1] = "Within threshold"
  /\ result.ImageSize # 0
  /\ result.ImageSize \div MiB # bisectRet.SizeMB

\* ---------------------------------------------------------------- C32
\* The positions of the restoring checkouts among the calls issued so far.
Restores == { k \in 1..Len(calls) : calls[k].op = "restore" }

\* C32: Run restores the kind of state it captured.  A restoring checkout
\* names the branch HEAD was on at the call when HEAD named a branch, and
\* the commit hash HEAD held when it was detached; no checkout follows it;
\* there is never more than one; and a Run that got to its loop and
\* returned has issued exactly one, which, when it succeeded, left HEAD
\* attached to the branch or detached at the hash as it was at the call.
C32_RestoresTheKindCaptured ==
  mode = "run" =>
    /\ Cardinality(Restores) <= 1
    /\ \A k \in Restores :
         /\ calls[k].arg.kind = headAtCall.kind
         /\ calls[k].arg.hash = headAtCall.hash
         /\ headAtCall.kind = "branch" => calls[k].arg.name = headAtCall.name
         /\ \A m \in (k + 1)..Len(calls) : calls[m].op # "checkout"
         /\ calls[k].ok => head = headAtCall
    /\ (pc = "returned" /\ originalRef # NoRef) => Cardinality(Restores) = 1

\* A Run from a detached HEAD checked a commit out, and its one restoring
\* checkout, by hash, was the last checkout and left HEAD detached.
C32_Witness ==
  /\ mode = "run"
  /\ pc = "returned"
  /\ headAtCall.kind = "detached"
  /\ OkCheckouts # {}
  /\ Cardinality(Restores) = 1
  /\ \A k \in Restores : calls[k].ok /\ calls[k].arg = Detached(headAtCall.hash)
  /\ head.kind = "detached"

BranchesBuilt ==
  Cardinality({ k \in 1..Len(calls) : calls[k].op = "inspect" /\ calls[k].ok })

\* A step of Compare failed: resolving, checking out, reading the commit,
\* building or inspecting.
BranchStepFailed ==
  \E k \in 1..Len(calls) :
    /\ calls[k].op \in {"resolve", "checkout", "commit", "build", "inspect"}
    /\ ~calls[k].ok

\* C34: Compare issues its restoration checkout, of the captured HEAD
\* commit, if and only if both branch builds succeeded.  When resolving,
\* checking out, building or inspecting either branch fails it returns the
\* error with no restoration checkout issued and the working tree where the
\* last successful branch checkout left it.
C34_CompareRestoresOnlyOnSuccess ==
  (mode = "compare" /\ pc = "returned") =>
    /\ RestoreAttempted <=> BranchesBuilt = 2
    /\ \A k \in 1..Len(calls) :
         calls[k].op = "restore" => calls[k].arg = Detached(headAtCall.hash)
    /\ BranchStepFailed =>
         /\ compareRet.status = "error"
         /\ ~RestoreAttempted
         /\ head = TreeAfterLoop
    /\ compareRet.status = "error" => ~RestoreAttempted /\ head = TreeAfterLoop

\* Branch A was built, then the build of branch B failed: Compare returned
\* the error and the tree stays at branch B's commit, away from where it
\* was at the call.
C34_Witness ==
  /\ mode = "compare"
  /\ pc = "returned"
  /\ compareRet = CompareError("build failed")
  /\ BranchesBuilt = 1
  /\ idx = 2
  /\ ~RestoreAttempted
  /\ head = Detached(result.Hash)
  /\ head.hash # headAtCall.hash

\* ---------------------------------------------------------------- C35
\* Result r with its SizeDiff left out.
Measured(r) == [r EXCEPT !.SizeDiff = 0]

\* C35: the results are not reset between calls.  While and after Run is
\* called a second time on the same TimeMachine, the results of the first
\* call stay in place at the head of the sequence, with only SizeDiff open
\* to change; when the second call returns without error the sequence has
\* one entry per point of both calls, the second call's in selection order
\* after the first call's, and every result without error carries the
\* difference to the next result without error anywhere after it in the
\* concatenated sequence.
C35_SecondRunAppends ==
  (mode = "run" /\ twin # NoTwin) =>
    /\ Len(results) >= Len(twin.results)
    /\ \A i \in 1..Len(twin.results) :
         Measured(results[i]) = Measured(twin.results[i])
    /\ (pc = "returned" /\ runErr = "nil") =>
         /\ Len(results) = Len(twin.results) + Len(commits)
         /\ \A k \in 1..Len(commits) :
              results[Len(twin.results) + k].CommitHash = commits[k].Hash
         /\ \A i \in 1..Len(results) :
              LET j == NextOk(results, i + 1)
              IN (results[i].Error = "" /\ j # 0) =>
                   results[i].SizeDiff =
                     results[i].ImageSize - results[j].ImageSize

\* Both calls measured every point; the last result of the first call, which
\* had no delta when that call returned, now carries the difference to the
\* first result of the second call.
C35_Witness ==
  /\ mode = "run"
  /\ twin # NoTwin
  /\ pc = "returned"
  /\ runErr = "nil"
  /\ Len(twin.results) = MaxAgainPoints
  /\ Len(results) = 2 * MaxAgainPoints
  /\ \A i \in 1..Len(results) : results[i].Error = ""
  /\ twin.results[MaxAgainPoints].SizeDiff = 0
  /\ results[MaxAgainPoints].SizeDiff # 0

\* ---------------------------------------------------------------- C36
\* No commit of the listing passes the date filters.
NoPointPasses ==
  \A i \in 1..Len(repo.log) :
    ~KeptByDates(repo.log[i], config.Since, config.Until)

\* C36: when the selection is empty because no point passes the filters,
\* Run returns the "no commits found" error from its entry step: the
\* working-tree state has not been captured, no checkout, build or other
\* call has been issued, the tree is untouched and there is no result.
C36_EmptySelectionReturnsEarly ==
  (mode = "run" /\ pc # "start" /\ repo.refOk /\ repo.logOk /\ NoPointPasses) =>
    /\ pc = "returned"
    /\ runErr = "no commits found"
    /\ originalRef = NoRef
    /\ calls = << >>
    /\ images = {}
    /\ head = headAtCall
    /\ results = << >>
    /\ commits = << >>

\* A listing of MaxLog entries, every one of them outside the date bounds,
\* made Run return the error.
C36_Witness ==
  /\ mode = "run"
  /\ pc = "returned"
  /\ Len(repo.log) = MaxLog
  /\ NoPointPasses
  /\ runErr = "no commits found"
  /\ originalRef = NoRef

\* ---------------------------------------------------------------- C37
\* The range FindRegression was called on materializes, without error, to
\* fewer than two points.
ShortRange ==
  LET r == getCommitRange(repo, headAtCall, bconfig)
  IN r.err = "" /\ Len(r.commits) < 2

\* C37: when the materialized range has fewer than two points,
\* FindRegression returns the "need at least 2 commits" error from its
\* entry step without probing: no checkout, build or other call is issued,
\* nothing is announced, and the working tree stays where it was.
C37_ShortRangeIsNotProbed ==
  (mode = "bisect" /\ pc # "start" /\ ShortRange) =>
    /\ pc = "returned"
    /\ bisectRet = BisectError("need at least 2 commits to bisect")
    /\ Issued = << >>
    /\ stdout = << >>
    /\ images = {}
    /\ head = headAtCall
    /\ badCommit = NoCommit

\* An explicit range that starts and ends at the same commit of a longer
\* history was refused.
C37_Witness ==
  /\ mode = "bisect"
  /\ pc = "returned"
  /\ ShortRange
  /\ Len(repo.log) >= 2
  /\ bconfig.GoodCommit # 0
  /\ bisectRet.err = "need at least 2 commits to bisect"

\* ---------------------------------------------------------------- C38
\* Indices of the results without an error.
Successes == { i \in 1..Len(results) : results[i].Error = "" }

\* C38: a bloat fact, whenever one is produced, has a strictly positive
\* sizeDiff that is at least every successful result's sizeDiff; an
\* optimization fact, whenever one is produced, has a strictly negative
\* sizeDiff that is at most every successful result's sizeDiff; so the two
\* facts never name the same result.
C38_FactsAreStrictExtremes ==
  FactsComputed =>
    /\ bloat # 0 =>
         /\ bloat \in Successes
         /\ results[bloat].SizeDiff > 0
         /\ \A j \in Successes : results[j].SizeDiff <= results[bloat].SizeDiff
    /\ optimization # 0 =>
         /\ optimization \in Successes
         /\ results[optimization].SizeDiff < 0
         /\ \A j \in Successes :
              results[j].SizeDiff >= results[optimization].SizeDiff
    /\ (bloat # 0 \/ optimization # 0) => bloat # optimization

\* Both facts were produced, for different results, and a third successful
\* result is neither.
C38_Witness ==
  /\ FactsComputed
  /\ bloat # 0
  /\ optimization # 0
  /\ bloat # optimization
  /\ \E j \in Successes : j \notin {bloat, optimization}

\* ---------------------------------------------------------------- C39
\* The sum of SizeDiff over a result sequence.
RECURSIVE SumSizeDiff(_)
SumSizeDiff(rs) ==
  IF rs = << >> THEN 0 ELSE Head(rs).SizeDiff + SumSizeDiff(Tail(rs))

\* The delta pass of the Run has been made.
DeltaPassDone == mode = "run" /\ pc \in {"restore", "returned"}

\* C39: after the delta pass of a single Run the sizeDiff values sum to the
\* size of the first successful result minus the size of the last
\* successful result in sequence order, and to 0 when fewer than two
\* results are successful.
C39_DeltasTelescope ==
  DeltaPassDone =>
    LET ok == ValidResults(results)
    IN SumSizeDiff(results) =
         IF Len(ok) < 2 THEN 0
         ELSE ok[1].ImageSize - ok[Len(ok)].ImageSize

\* Three successful results whose sizes go down and up again: both deltas
\* are nonzero and of opposite sign, and they sum to first minus last.
C39_Witness ==
  /\ DeltaPassDone
  /\ pc = "returned"
  /\ Len(results) = MaxResults
  /\ \A i \in 1..Len(results) : results[i].Error = ""
  /\ results[1].SizeDiff < 0
  /\ results[2].SizeDiff > 0
  /\ SumSizeDiff(results) # 0

====
